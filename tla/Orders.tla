--------------------------------- MODULE Orders ---------------------------------
(***************************************************************************)
(* Orders on the demo account: the trade client sends, sends again and     *)
(* gives up; the exchange accepts, fills and cancels; the local book of    *)
(* TrackedOrders follows the listings and is reconciled with them.         *)
(*                                                                         *)
(* Nothing in src/ calls the client yet, so who places, tracks and         *)
(* reconciles is any caller: it may send an OrderRequest again and use a   *)
(* listing late.  Quantities are left out; the exchange refuses an         *)
(* orderLinkId it has seen.                                                *)
(***************************************************************************)
EXTENDS Naturals, FiniteSets, Files

CONSTANTS
  Requests,     \* OrderRequests; each is its order_link_id
  SendRetries   \* _MAX_RETRIES of the client

ASSUME OrdersAssumption == SendRetries \in Nat

Terminal == {"Filled", "Cancelled", "Rejected"}

VARIABLES
  exchange,  \* the orders the exchange has, each with request, link and status
  network,   \* requests that have not arrived, given up or not
  sending,   \* per request: the call in progress
  tracked,   \* per request: the status of its TrackedOrder, or "untracked"
  listing,   \* the last open_orders()
  reconciled \* the last reconciliation

orderVars == <<exchange, network, sending, tracked, listing, reconciled>>

-----------------------------------------------------------------------------
(* BybitTradeClient.                                                       *)

\* Made once per OrderRequest, so that every attempt carries the same.
Link_per_attempt(request, attempt) == <<request, attempt>>
Link(request, attempt) == <<request, 0>>

Message(path, request, attempt) ==
  [path |-> path, request |-> request, link |-> Link(request, attempt)]

\* place_order and cancel_order: _post.
Post(path, request) ==
  /\ sending[request] = Idle
  /\ sending' = [sending EXCEPT ![request] =
                   [stage |-> path, attempt |-> 0, retCode |-> "none"]]
  /\ network' = network \cup {Message(path, request, 0)}
  /\ UNCHANGED <<exchange, tracked, listing, reconciled>>

\* 429 and 5xx, also after the exchange has served the request: send again.
SendAgain(request) ==
  LET call == sending[request] IN
  /\ call # Idle /\ call.attempt < SendRetries
  /\ sending' = [sending EXCEPT ![request].attempt = @ + 1, ![request].retCode = "none"]
  /\ network' = network \cup {Message(call.stage, request, call.attempt + 1)}
  /\ UNCHANGED <<exchange, tracked, listing, reconciled>>

\* The attempts are used up, or the connection fails or times out, which is not
\* tried again.  What was sent may still arrive.
GiveUp(request) ==
  /\ sending[request] # Idle
  /\ sending' = [sending EXCEPT ![request] = Idle]
  /\ UNCHANGED <<exchange, network, tracked, listing, reconciled>>

\* _unwrap: retCode 0 confirms a placed order, which the caller tracks; any other
\* raises, except that cancel_order takes a missing order for cancelled.
Unwrap(request) ==
  LET call == sending[request] IN
  /\ call # Idle /\ call.retCode # "none"
  /\ sending' = [sending EXCEPT ![request] = Idle]
  /\ tracked' = IF call.stage = "create" /\ call.retCode = "ok" /\ tracked[request] = "untracked"
                THEN [tracked EXCEPT ![request] = "New"] ELSE tracked
  /\ UNCHANGED <<exchange, network, listing, reconciled>>

\* open_orders: what the exchange has, closed orders of late included.
OpenOrders(recent) ==
  /\ listing' = { o \in exchange : o.status \notin Terminal } \cup recent
  /\ UNCHANGED <<exchange, network, sending, tracked, reconciled>>

-----------------------------------------------------------------------------
(* The local book.                                                         *)

\* TrackedOrder.update: refused once the order is terminal.
Update(order) ==
  /\ tracked[order.request] \notin Terminal \cup {"untracked"}
  /\ tracked' = [tracked EXCEPT ![order.request] = order.status]
  /\ UNCHANGED <<exchange, network, sending, listing, reconciled>>

\* reconcile, with local_status_of: ids the exchange knows alone, ids only the local
\* book takes for open, and open orders whose status differs.
Reconcile ==
  LET local == { r \in Requests : tracked[r] \notin Terminal \cup {"untracked"} }
      open == { o \in listing : o.status \notin Terminal }
      unknown_remote == { o \in listing : o.request \notin local }
      stale_local == local \ { o.request : o \in open }
      status_diffs == { o \in open : o.request \in local /\ tracked[o.request] # o.status }
  IN /\ reconciled' = [open |-> open, book |-> tracked,
                   is_consistent |-> unknown_remote \cup status_diffs = {} /\ stale_local = {}]
     /\ UNCHANGED <<exchange, network, sending, tracked, listing>>

-----------------------------------------------------------------------------
(* The exchange.                                                           *)

Answer(message, retCode) ==
  sending' = [sending EXCEPT ![message.request] =
    IF @.stage = message.path THEN [@ EXCEPT !.retCode = retCode] ELSE @]

Accept(message) ==
  /\ message.path = "create"
  /\ \A o \in exchange : o.link # message.link
  /\ exchange' = exchange \cup
       {[request |-> message.request, link |-> message.link, status |-> "New"]}
  /\ Answer(message, "ok")

CancelOrder(message) == \E o \in exchange :
  /\ message.path = "cancel" /\ o.link = message.link /\ o.status \notin Terminal
  /\ exchange' = (exchange \ {o}) \cup {[o EXCEPT !.status = "Cancelled"]}
  /\ Answer(message, "ok")

\* A link it has seen, or an order that is not there or not open any more.
Refuse(message) ==
  /\ IF message.path = "create" THEN \E o \in exchange : o.link = message.link
     ELSE \A o \in exchange : o.link = message.link => o.status \in Terminal
  /\ Answer(message, "refused")
  /\ UNCHANGED exchange

Arrive(message) ==
  /\ Accept(message) \/ CancelOrder(message) \/ Refuse(message)
  /\ network' = network \ {message}
  /\ UNCHANGED <<tracked, listing, reconciled>>

Trade(order, status) ==
  /\ order.status \notin Terminal /\ status # order.status
  /\ exchange' = (exchange \ {order}) \cup {[order EXCEPT !.status = status]}
  /\ UNCHANGED <<network, sending, tracked, listing, reconciled>>

-----------------------------------------------------------------------------

OrdersInit ==
  /\ exchange = {} /\ network = {} /\ listing = {} /\ reconciled = Absent
  /\ sending = [r \in Requests |-> Idle]
  /\ tracked = [r \in Requests |-> "untracked"]

OrdersNext ==
  \/ \E r \in Requests :
       \/ \E path \in {"create", "cancel"} : Post(path, r)
       \/ SendAgain(r) \/ GiveUp(r) \/ Unwrap(r)
  \/ \E recent \in SUBSET { o \in exchange : o.status \in Terminal } : OpenOrders(recent)
  \/ \E o \in listing : Update(o)
  \/ Reconcile
  \/ \E m \in network : Arrive(m)
  \/ \E o \in exchange, status \in {"PartiallyFilled", "Filled", "Rejected"} :
       Trade(o, status)

OrdersSpec == OrdersInit /\ [][OrdersNext]_orderVars

-----------------------------------------------------------------------------
(* Properties.                                                             *)

\* However often a request is sent, lost, answered late or sent again by its caller,
\* the exchange has one order of it at most; what the local book takes for over is
\* over; and a consistent report listed no live order that the book did not know, at
\* that status (trade_client.py:5 and the purpose of reconcile).
OrderedOnce ==
  /\ \A o, p \in exchange : o.request = p.request => o = p
  /\ \A r \in Requests : tracked[r] \in Terminal =>
       \E o \in exchange : o.request = r /\ o.status = tracked[r]
  /\ reconciled # Absent /\ reconciled.is_consistent =>
       \A o \in reconciled.open : reconciled.book[o.request] = o.status
=============================================================================
