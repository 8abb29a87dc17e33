----------------------------- MODULE ReturnPolicy -----------------------------
(***************************************************************************)
(* check_return_policy of the return chatbot over a catalogue of orders,   *)
(* products and policies.  A line is an order with one of its items; dates *)
(* are days, and an order that was never delivered has no date.            *)
(***************************************************************************)
EXTENDS Integers

CONSTANTS
  Orders,       \* order id -> [user, status, delivered, items]; items: item id ->
                \* [product, refundable]
  Products,     \* product id -> category
  Policies,     \* category -> [window, allowed]
  Today,
  NoDate

Statuses == {"processing", "shipped", "delivered", "cancelled"}

ASSUME CatalogueOK ==
  /\ Today \in Nat /\ NoDate \notin Nat
  /\ \A o \in DOMAIN Orders :
       /\ Orders[o].status \in Statuses /\ Orders[o].delivered \in 0..Today \cup {NoDate}
       /\ \A i \in DOMAIN Orders[o].items : Orders[o].items[i].refundable \in BOOLEAN
  /\ \A c \in DOMAIN Policies :
       Policies[c].window \in Nat /\ Policies[c].allowed \in BOOLEAN

\* The conditions an order line fails; the last day of the window counts.
Fails(order, item, policy, code) ==
  CASE code = "order_not_delivered"     -> order.status # "delivered"
    [] code = "item_not_refundable"     -> ~item.refundable
    [] code = "policy_disallows_refund" -> ~policy.allowed
    [] code = "missing_delivery_date"   -> order.delivered = NoDate
    [] code = "return_window_expired"   ->
         order.delivered # NoDate /\ Today - order.delivered > policy.window

PolicyReasonCodes(order, item, policy) ==
  {code \in {"order_not_delivered", "item_not_refundable", "policy_disallows_refund",
             "missing_delivery_date", "return_window_expired"} :
     Fails(order, item, policy, code)}

\* The first row that the catalogue lacks is the only reason given.
CheckReturnPolicy(line) ==
  LET o == line[1]  i == line[2] IN
  CASE o \notin DOMAIN Orders -> {"order_not_found"}
    [] o \in DOMAIN Orders /\ i \notin DOMAIN Orders[o].items -> {"item_not_found"}
    [] OTHER ->
         LET item == Orders[o].items[i] IN
         CASE item.product \notin DOMAIN Products -> {"product_not_found"}
           [] item.product \in DOMAIN Products
                /\ Products[item.product] \notin DOMAIN Policies -> {"policy_not_found"}
           [] OTHER -> PolicyReasonCodes(Orders[o], item, Policies[Products[item.product]])

Lines == UNION {{o} \X DOMAIN Orders[o].items : o \in DOMAIN Orders}

DueLines == {line \in Lines : CheckReturnPolicy(line) = {}}

OwnerOf == [line \in Lines |-> Orders[line[1]].user]
=============================================================================
