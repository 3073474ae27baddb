--------------------------------- MODULE Billing ---------------------------------
(***************************************************************************)
(* What an organization's row says of its subscription at Stripe.          *)
(* createCheckout creates a customer for an organization that has none     *)
(* and stores it; webhooks carry a subscription as it was when something   *)
(* happened to it, arrive in any order and again, and are stored as they   *)
(* come.  Stripe is external: a subscription is numbered through the       *)
(* states it goes through, and its status and price are left out.          *)
(***************************************************************************)
EXTENDS Naturals, Requests

CONSTANTS Customers, Subscriptions,  \* identities at Stripe
          Webhooks,                  \* webhooks handled at once
          MaxState                   \* bound: states of one subscription

ASSUME BillingAssumption ==
  /\ None \notin Customers \cup Subscriptions
  /\ MaxState \in Nat \ {0}

VARIABLES organization,  \* the row: customer, subscription, and which state of it
          created,       \* customers that exist
          sold,          \* customers a checkout session was made for
          subscription,  \* subscription[s] at Stripe; version 0: none
          event,         \* events that were sent, and may come again
          checkout,      \* checkout[c]: a call of createCheckout
          webhook        \* webhook[w]: a handler of checkout.session.completed

billingVars == <<organization, created, sold, subscription, event, checkout, webhook>>

Versions == 0..MaxState

\* tagged: its metadata name the organization, as subscriptions of checkouts do.
SubscriptionRecord == [customer: Customers \cup {None}, tagged: BOOLEAN, version: Versions]

OrganizationRecord ==
  [customer: Customers \cup {None}, subscription: Subscriptions \cup {None}, version: Versions]

Events == [type: {"completed", "changed"}, subscription: Subscriptions, version: Versions]

\* read: the customer of the row, or the one created; stale: somebody has written the row since.
CheckoutRecord ==
  [pc: {"idle", "create", "update", "session"}, customer: Customers \cup {None}, stale: BOOLEAN]

WebhookRecord ==
  [pc: {"idle", "write"}, subscription: Subscriptions \cup {None}, version: Versions, stale: BOOLEAN]

IdleCheckout == [pc |-> "idle", customer |-> None, stale |-> FALSE]
IdleWebhook  == [pc |-> "idle", subscription |-> None, version |-> 0, stale |-> FALSE]

BillingTypeOK ==
  /\ organization \in OrganizationRecord
  /\ created \subseteq Customers
  /\ sold \subseteq created
  /\ subscription \in [Subscriptions -> SubscriptionRecord]
  /\ event \subseteq Events
  /\ checkout \in [Calls -> CheckoutRecord]
  /\ webhook \in [Webhooks -> WebhookRecord]

BillingInit ==
  /\ organization = [customer |-> None, subscription |-> None, version |-> 0]
  /\ created = {} /\ sold = {} /\ event = {}
  /\ subscription = [s \in Subscriptions |-> [customer |-> None, tagged |-> FALSE, version |-> 0]]
  /\ checkout = [c \in Calls |-> IdleCheckout]
  /\ webhook = [w \in Webhooks |-> IdleWebhook]

\* The row is written: what others have read of it is old.
Overtake ==
  /\ checkout' = [c \in Calls |-> IF checkout[c].pc \in {"create", "update"}
                                  THEN [checkout[c] EXCEPT !.stale = TRUE] ELSE checkout[c]]
  /\ webhook' = [w \in Webhooks |-> IF webhook[w].pc = "write"
                                    THEN [webhook[w] EXCEPT !.stale = TRUE] ELSE webhook[w]]

Stripe == <<created, sold, subscription, event>>
-----------------------------------------------------------------------------
\* Bug: the session is made for the customer of the row, created or not.
FindNoCustomer(c) ==
  /\ checkout[c].pc = "idle"
  /\ checkout' = [checkout EXCEPT ![c] = [pc |-> "session", customer |-> organization.customer,
                                          stale |-> FALSE]]
  /\ UNCHANGED <<organization, Stripe, webhook>>

\* createCheckout: the customer of the row, if there is one.
FindOrganization(c) ==
  /\ checkout[c].pc = "idle"
  /\ checkout' = [checkout EXCEPT ![c] =
       [pc |-> IF organization.customer = None THEN "create" ELSE "session",
        customer |-> organization.customer, stale |-> FALSE]]
  /\ UNCHANGED <<organization, Stripe, webhook>>

CreateCustomer(c, x) ==
  /\ checkout[c].pc = "create" /\ x \notin created
  /\ created' = created \cup {x}
  /\ checkout' = [checkout EXCEPT ![c].pc = "update", ![c].customer = x]
  /\ UNCHANGED <<organization, sold, subscription, event, webhook>>

StoreCustomer(c) ==
  /\ checkout[c].pc = "update"
  /\ organization' = [organization EXCEPT !.customer = checkout[c].customer]
  /\ checkout' = [d \in Calls |->
       IF d = c THEN [checkout[c] EXCEPT !.pc = "session"]
       ELSE IF checkout[d].pc \in {"create", "update"} THEN [checkout[d] EXCEPT !.stale = TRUE]
       ELSE checkout[d]]
  /\ UNCHANGED <<Stripe, webhook>>

\* sessions.create, and the answer.
CreateSession(c) ==
  /\ checkout[c].pc = "session"
  /\ sold' = sold \cup {checkout[c].customer}
  /\ checkout' = [checkout EXCEPT ![c] = IdleCheckout]
  /\ UNCHANGED <<organization, created, subscription, event, webhook>>

\* The process stops, or Stripe or the database does not answer.
CheckoutFails(c) ==
  /\ checkout[c].pc # "idle"
  /\ checkout' = [checkout EXCEPT ![c] = IdleCheckout]
  /\ UNCHANGED <<organization, Stripe, webhook>>
-----------------------------------------------------------------------------
\* Stripe: somebody pays in a checkout session, or sells a subscription by hand.
Subscribe(s, x, tagged) ==
  /\ subscription[s].version = 0 /\ x \in created
  /\ tagged => x \in sold
  /\ subscription' = [subscription EXCEPT ![s] = [customer |-> x, tagged |-> tagged, version |-> 1]]
  /\ event' = event \cup {[type |-> type, subscription |-> s, version |-> 1] :
                            type \in IF tagged THEN {"completed", "changed"} ELSE {"changed"}}
  /\ UNCHANGED <<organization, created, sold, checkout, webhook>>

\* Stripe: a subscription is renewed, changed or deleted.
Change(s) ==
  /\ subscription[s].version \in 1..(MaxState - 1)
  /\ subscription' = [subscription EXCEPT ![s].version = @ + 1]
  /\ event' = event \cup {[type |-> "changed", subscription |-> s,
                           version |-> subscription[s].version + 1]}
  /\ UNCHANGED <<organization, created, sold, checkout, webhook>>
-----------------------------------------------------------------------------
\* Bug: the customer of the row is kept.
StoreSubscription(s, version) ==
  organization' = [organization EXCEPT !.subscription = s, !.version = version]

\* subscriptionData, in one update with the customer.
Store(s, version) ==
  organization' = [customer |-> subscription[s].customer, subscription |-> s, version |-> version]

\* handleSubscriptionChange: the organization the subscription names, or the one
\* that has its customer.
HandleChange(e) ==
  LET s == subscription[e.subscription]
  IN /\ e.type = "changed"
     /\ IF s.tagged \/ s.customer = organization.customer
        THEN Store(e.subscription, e.version) /\ Overtake
        ELSE UNCHANGED <<organization, checkout, webhook>>
     /\ UNCHANGED Stripe

\* Bug: the handler takes the subscription out of the event.
UseCompleted(w, e) ==
  /\ e.type = "completed" /\ webhook[w].pc = "idle"
  /\ webhook' = [webhook EXCEPT ![w] = [pc |-> "write", subscription |-> e.subscription,
                                        version |-> e.version, stale |-> FALSE]]
  /\ UNCHANGED <<organization, Stripe, checkout>>

\* handleCheckoutCompleted: subscriptions.retrieve gives the subscription as it is now.
Retrieve(w, e) ==
  /\ e.type = "completed" /\ webhook[w].pc = "idle"
  /\ webhook' = [webhook EXCEPT ![w] = [pc |-> "write", subscription |-> e.subscription,
                                        version |-> subscription[e.subscription].version,
                                        stale |-> FALSE]]
  /\ UNCHANGED <<organization, Stripe, checkout>>

StoreRetrieved(w) ==
  /\ webhook[w].pc = "write"
  /\ Store(webhook[w].subscription, webhook[w].version)
  /\ checkout' = [c \in Calls |-> IF checkout[c].pc \in {"create", "update"}
                                  THEN [checkout[c] EXCEPT !.stale = TRUE] ELSE checkout[c]]
  /\ webhook' = [v \in Webhooks |-> IF v = w THEN IdleWebhook
                                    ELSE IF webhook[v].pc = "write"
                                    THEN [webhook[v] EXCEPT !.stale = TRUE] ELSE webhook[v]]
  /\ UNCHANGED Stripe

\* The handler stops; Stripe will send the event again.
WebhookFails(w) ==
  /\ webhook[w].pc = "write"
  /\ webhook' = [webhook EXCEPT ![w] = IdleWebhook]
  /\ UNCHANGED <<organization, Stripe, checkout>>

BillingNext ==
  \/ \E c \in Calls :
       FindOrganization(c) \/ StoreCustomer(c) \/ CreateSession(c) \/ CheckoutFails(c)
         \/ \E x \in Customers : CreateCustomer(c, x)
  \/ \E s \in Subscriptions :
       Change(s) \/ \E x \in Customers, tagged \in BOOLEAN : Subscribe(s, x, tagged)
  \/ \E e \in event : HandleChange(e) \/ \E w \in Webhooks : Retrieve(w, e)
  \/ \E w \in Webhooks : StoreRetrieved(w) \/ WebhookFails(w)

BillingSpec == BillingInit /\ [][BillingNext]_billingVars
-----------------------------------------------------------------------------
\* The customer of the row is the one who pays for its subscription.
Owns == organization.subscription # None =>
          subscription[organization.subscription].customer = organization.customer

\* The row comes to name one customer and the subscription of another only through
\* a checkout that somebody has overtaken: two checkouts of an organization without
\* a customer create one each (createCheckout, updateOrganizationSubscription).
CustomerOwnsSubscription ==
  [][Owns /\ ~Owns' => \E c \in Calls : checkout[c].pc = "update" /\ checkout[c].stale
                                           /\ checkout'[c].pc = "session"]_billingVars

\* A webhook that says a checkout is completed sets the row back to an earlier
\* state of its subscription only if another one has written the row meanwhile,
\* however late or often it comes (handleCheckoutCompleted retrieves).
CompletedNeverSetsBack ==
  [][\A w \in Webhooks : webhook[w].pc = "write" /\ webhook'[w].pc = "idle" =>
       \/ organization'.subscription # organization.subscription
       \/ organization'.version >= organization.version
       \/ webhook[w].stale]_billingVars
=============================================================================
