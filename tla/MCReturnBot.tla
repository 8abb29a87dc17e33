----------------------------- MODULE MCReturnBot -----------------------------
(* Small instances of ReturnBot over a small catalogue. *)
EXTENDS ReturnBot, ReturnPolicy, TLC

CONSTANTS u1, u2, s1, s2, k1, k2, both, due, late, others

\* Like a and a:b with b:c and c: the first user's first session and the second's
\* second share a record.
ColonKeys ==
  <<u1, s1>> :> both @@ <<u2, s2>> :> both @@ <<u1, s2>> :> k1 @@ <<u2, s1>> :> k2

\* Those two, and the second user under a session id of the first.
Askers == {<<u1, s1>>, <<u2, s2>>, <<u2, s1>>}

Order(user, day, items) ==
  [user |-> user, status |-> "delivered", delivered |-> day, items |-> items]
Item(product) == [product |-> product, refundable |-> TRUE]

\* On day 40, with 30 days for headphones and 45 for a jacket: u1's headphones
\* of day 10 are due for the last time and those of day 9 late; u2's jacket is due.
SmallOrders ==
  "o1" :> Order(u1, 10, "i1" :> Item("headphones"))
    @@ "o2" :> Order(u1, 9, "i2" :> Item("headphones"))
    @@ "o3" :> Order(u2, 9, "i3" :> Item("jacket"))
SmallProducts == "headphones" :> "electronics" @@ "jacket" :> "apparel"
SmallPolicies ==
  "electronics" :> [window |-> 30, allowed |-> TRUE]
    @@ "apparel" :> [window |-> 45, allowed |-> TRUE]

\* The catalogue's lines under the names the run uses.
Line == due :> <<"o1", "i1">> @@ late :> <<"o2", "i2">> @@ others :> <<"o3", "i3">>
Catalog == due :> u1 @@ late :> u1 @@ others :> u2

\* The owners and the eligible lines of the run are those of the catalogue; a
\* window one day shorter or longer would give others.
ASSUME CatalogueAgrees ==
  /\ Eligible = {x \in Items : Line[x] \in DueLines}
  /\ \A x \in Items : Owner[x] = OwnerOf[Line[x]]
=============================================================================
