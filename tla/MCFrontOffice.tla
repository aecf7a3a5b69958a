---------------------------- MODULE MCFrontOffice ----------------------------
(***************************************************************************)
(* Instances of FrontOffice for TLC.  A behaviour calls one component:     *)
(* they share no table, so nothing is lost by not mixing their calls.      *)
(***************************************************************************)
EXTENDS FrontOffice, TLC

CONSTANTS q1, q2, u1, u2, e1, e2, w1, w2, m1, m2, v1, v2, s1, s2, s3, r1, r2, r3, r4, p1,
          h1, h2, i1, a1, a2, t1, o1, o2, k1, k2, k3, n1, n2, word, g1, g2, b1, x1, x2, y1, y2, j1, j2, z1, z2, d1

Components == {"accounts", "teams", "defaults", "transfers", "throttling", "contract", "links", "merchants", "signin",
               "audit"}
Only(c, n) == [d \in Components |-> IF d = c THEN n ELSE 0]
MCBudgets == {Only("accounts", 3), Only("teams", 3), [Only("teams", 1) EXCEPT !.defaults = 2],
              Only("transfers", 3), Only("throttling", 3),
              Only("contract", 3), Only("links", 4), Only("merchants", 3),
              Only("signin", 4), Only("audit", 3)}

\* The owner has a default role, and there are two custom roles, one fewer than there may be.
MCRosters ==
    {[roles |-> [r \in {r1, r2, r3, r4} |->
        IF r = r1 THEN [name |-> "Owner", isDefault |-> TRUE, isActive |-> TRUE]
        ELSE IF r \in {r2, r3} THEN [name |-> None, isDefault |-> FALSE, isActive |-> TRUE] ELSE None],
      members |-> {<<u1, r1>>},
      grants |-> {<<r1, "manage">>},
      catalog |-> {"manage"}]}

MCDefaultRoles == <<[name |-> "Owner", permits |-> <<"manage">>],
                    [name |-> "Viewer", permits |-> <<p1>>]>>

\* Bodies that name a column that is not asked about besides.
MCRoleBodies == {[isActive |-> FALSE, isDefault |-> FALSE],
                 [isActive |-> TRUE, isDefault |-> TRUE, name |-> "Viewer"]}

\* Bodies that name a column, and ones with a flag besides.
MCUserBodies == {[email |-> e1, wallet |-> w2], [email |-> e2, emailVerified |-> TRUE, walletVerified |-> FALSE],
                 [wallet |-> w1, walletVerified |-> TRUE]}

\* "Invoice" and "Invoice 1".
MCStem == n1 :> <<word>> @@ n2 :> <<word, 1>>
MCLinkBodies == {[name |-> n1], [name |-> n2], [slug |-> <<word>>, isDeleted |-> FALSE]}

\* One that changes two columns, and one that makes a file the logo.
MCProfileBodies == {[email |-> e2, name |-> d1], [logo |-> z1]}

MCShopOf == o1 :> a1 @@ o2 :> a1
MCTokenOf == o1 :> t1 @@ o2 :> t1
MCExpiryOf == o1 :> 0 @@ o2 :> 1

Symmetry == Permutations(Requests)
==============================================================================
