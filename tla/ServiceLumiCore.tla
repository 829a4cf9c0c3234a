--------------------------- MODULE ServiceLumiCore ---------------------------
(* The repair-shop core (servicelumi-core/src): tenant-scoped stores of       *)
(* customers, devices, technicians and work orders, the per-tenant module     *)
(* registry, and the order life cycle.  Every write passes the isolation      *)
(* check of the store and appends to the caller's partition of the ledger.    *)
(* Names, prices, notes and photos are data no property tells apart; what is  *)
(* kept of a partition is what replaying its order events gives.              *)
EXTENDS FiniteSets

CONSTANTS Tenants,        \* tenancy scopes
          Orders,         \* work order ids
          Customers, Devices, Technicians,
          Modules,        \* registered module keys
          Checklist,      \* [Modules -> set of quality items]
          Hazardous,      \* modules whose devices require a certification
          Certified,      \* technicians holding that certification
          None

VARIABLES customers,      \* [Customers -> Tenants \cup {None}]
          devices,        \* [Devices -> record or None]
          technicians,    \* [Technicians -> Tenants]
          enabled,        \* [Tenants -> SUBSET Modules]
          shop            \* the order store and the ledger's replay

coreVars == <<customers, devices, technicians, enabled, shop>>

States == {"RECEIVED", "DIAGNOSING", "QUOTE_PENDING_APPROVAL", "APPROVED", "IN_REPAIR",
           "WAITING_PARTS", "TESTING", "READY_FOR_PICKUP", "DELIVERED", "CANCELLED"}

LegalTransitions == [s \in States |->
    CASE s = "RECEIVED"               -> {"DIAGNOSING", "CANCELLED"}
      [] s = "DIAGNOSING"             -> {"QUOTE_PENDING_APPROVAL", "CANCELLED"}
      [] s = "QUOTE_PENDING_APPROVAL" -> {"APPROVED", "CANCELLED"}
      [] s = "APPROVED"               -> {"IN_REPAIR", "CANCELLED"}
      [] s = "IN_REPAIR"              -> {"TESTING", "WAITING_PARTS", "CANCELLED"}
      [] s = "WAITING_PARTS"          -> {"IN_REPAIR", "CANCELLED"}
      [] s = "TESTING"                -> {"IN_REPAIR", "READY_FOR_PICKUP", "CANCELLED"}
      [] s = "READY_FOR_PICKUP"       -> {"DELIVERED"}
      [] OTHER                        -> {}]

Workable == States \ {"READY_FOR_PICKUP", "DELIVERED", "CANCELLED"}

Items == UNION {Checklist[m] : m \in Modules}

WorkOrders == [scope : Tenants, dev : Devices, module : Modules, state : States, tech : Technicians \cup {None},
               quote : BOOLEAN, approval : BOOLEAN, parts : BOOLEAN, qc : SUBSET Items, warranty : BOOLEAN]
OrderEntries == [state : States, tech : Technicians \cup {None}]
DeviceRecords == [scope : Tenants, customer : Customers, module : Modules]

ASSUME ShopCoreAssumption ==
    /\ None \notin Tenants /\ None \notin WorkOrders /\ None \notin DeviceRecords /\ None \notin Technicians
    /\ Checklist \in [Modules -> SUBSET Items]

\* A transition request: the target and the optional parts that matter.
Request(to) == [to |-> to, quote |-> "absent", approval |-> FALSE, faults |-> "known"]

----------------------------------------------------------------------------
(* The tenant-scoped store *)

\* isolationDenied for an active tenant: exact scope equality.
SameScope(t, owner) == owner = t

Visible(sh, t, o) == /\ sh.orders[o] # None
                     /\ SameScope(t, sh.orders[o].scope)

\* Variant that trusts the record and does not look at who owns the id.
CanPutBlind(t, scope, existing) == SameScope(t, scope)

CanPut(t, scope, existing) == /\ SameScope(t, scope)
                              /\ existing # None => SameScope(t, existing)

OwnerOf(sh, o) == IF sh.orders[o] = None THEN None ELSE sh.orders[o].scope

\* put, and the ledger event of an accepted write.
PutOrder(sh, t, o, rec) ==
    IF CanPut(t, rec.scope, OwnerOf(sh, o))
    THEN [sh EXCEPT !.orders[o] = rec,
                    !.ledger[t][o] = [state |-> rec.state, tech |-> rec.tech]]
    ELSE sh

----------------------------------------------------------------------------
(* The order life cycle *)

NewWorkOrder(t, d) ==
    [scope |-> t, dev |-> d, module |-> devices[d].module, state |-> "RECEIVED", tech |-> None,
     quote |-> FALSE, approval |-> FALSE, parts |-> FALSE, qc |-> {}, warranty |-> FALSE]

TransitionApplies(order, req) ==
    /\ req.to \in LegalTransitions[order.state]
    /\ req.to = "QUOTE_PENDING_APPROVAL" => req.quote # "absent" \/ order.quote
    /\ req.to = "APPROVED" => /\ req.approval \/ order.approval
                              /\ req.quote = "absent"
    /\ req.quote # "invalid"

Transitioned(order, req) ==
    [order EXCEPT !.state = req.to,
                  !.quote = @ \/ req.quote = "valid",
                  !.approval = @ \/ req.approval]

ApplyWorkOrderTransition(sh, t, o, req) ==
    IF /\ Visible(sh, t, o)
       /\ req.faults = "known"
       /\ TransitionApplies(sh.orders[o], req)
    THEN PutOrder(sh, t, o, Transitioned(sh.orders[o], req))
    ELSE sh

\* evaluateHazardAssignment: the order's module names the hazard attribute, the
\* device as it is registered now its value.
HazardCleared(sh, o, k) ==
    {sh.orders[o].module, devices[sh.orders[o].dev].module} \subseteq Hazardous => k \in Certified

AssignTechnician(sh, t, o, k) ==
    IF /\ Visible(sh, t, o)
       /\ sh.orders[o].state \in Workable
       /\ SameScope(t, technicians[k])
       /\ HazardCleared(sh, o, k)
    THEN PutOrder(sh, t, o, [sh.orders[o] EXCEPT !.tech = k])
    ELSE sh

RecordPartUsed(sh, t, o) ==
    IF Visible(sh, t, o) /\ sh.orders[o].state \in {"IN_REPAIR", "TESTING"}
    THEN PutOrder(sh, t, o, [sh.orders[o] EXCEPT !.parts = TRUE])
    ELSE sh

RecordQualityCheck(sh, t, o, item) ==
    IF Visible(sh, t, o) /\ sh.orders[o].state = "TESTING"
    THEN PutOrder(sh, t, o, [sh.orders[o] EXCEPT !.qc = @ \cup {item}])
    ELSE sh

AddPhotoRef(sh, t, o) ==
    IF Visible(sh, t, o) THEN PutOrder(sh, t, o, sh.orders[o]) ELSE sh

\* Variant that is satisfied with any passed item.
ChecklistPassedSome(order) == order.qc # {}

ChecklistPassed(order) == Checklist[order.module] \subseteq order.qc

DeliverWithWarranty(sh, t, o) ==
    IF /\ Visible(sh, t, o)
       /\ ChecklistPassed(sh.orders[o])
       /\ TransitionApplies(sh.orders[o], Request("DELIVERED"))
    THEN PutOrder(sh, t, o, [Transitioned(sh.orders[o], Request("DELIVERED"))
                                 EXCEPT !.warranty = TRUE])
    ELSE sh

OpenWorkOrder(sh, t, o, d, c) ==
    IF /\ devices[d] # None /\ SameScope(t, devices[d].scope)
       /\ devices[d].module \in enabled[t]
       /\ devices[d].customer = c
    THEN PutOrder(sh, t, o, NewWorkOrder(t, d))
    ELSE sh

----------------------------------------------------------------------------
(* Modules, customers and devices *)

EnableModule(t, m) ==
    /\ enabled' = [enabled EXCEPT ![t] = @ \cup {m}]
    /\ UNCHANGED <<customers, devices, technicians, shop>>

DisableModule(t, m) ==
    /\ enabled' = [enabled EXCEPT ![t] = @ \ {m}]
    /\ UNCHANGED <<customers, devices, technicians, shop>>

CreateCustomer(t, c) ==
    /\ customers' = IF CanPut(t, t, customers[c]) THEN [customers EXCEPT ![c] = t] ELSE customers
    /\ UNCHANGED <<devices, technicians, enabled, shop>>

CanRegister(t, d, c, m) ==
    /\ m \in enabled[t]
    /\ SameScope(t, customers[c])
    /\ CanPut(t, t, IF devices[d] = None THEN None ELSE devices[d].scope)

RegisterDevice(t, d, c, m) ==
    /\ devices' = IF CanRegister(t, d, c, m)
                  THEN [devices EXCEPT ![d] = [scope |-> t, customer |-> c, module |-> m]]
                  ELSE devices
    /\ UNCHANGED <<customers, technicians, enabled, shop>>

=============================================================================
