----------------------------- MODULE ServiceLumi -----------------------------
(* The ServiceLumi product: the web server's POST routes over the shop core,  *)
(* with sessions (servicelumi-app/src/session.ts), confirmed voice commands   *)
(* (voice.ts), label scans (ocr.ts) and the offline sync gate                 *)
(* (servicelumi-surface/src/mobile.ts).  A POST takes its session when the    *)
(* request arrives, then awaits the body: the session may be closed by then.  *)
EXTENDS ServiceLumiCore, Naturals, Sequences

CONSTANTS Sessions,       \* session ids, in the order they are issued
          Logins,         \* <<tenant, role>> pairs of the demo users
          SyncKeys,       \* idempotency keys of offline operations
          SeedTenant, SeedCustomer, SeedDevice, SeedModule,
          MaxTickets      \* bound: voice commands and label drafts issued

ASSUME ServiceLumiAssumption ==
    /\ SeedTenant \in Tenants /\ SeedCustomer \in Customers /\ SeedModule \in Modules
    /\ Logins \subseteq Tenants \X {"OWNER", "RECEPTION", "TECHNICIAN"}
    /\ MaxTickets \in Nat
    /\ None \notin [tenant : Tenants, role : {"OWNER", "RECEPTION", "TECHNICIAN"}, live : BOOLEAN]

VARIABLES sessions,       \* [Sessions -> None or [tenant, role, live]]
          posting,        \* sessions with a POST whose body is awaited
          issuing,        \* ids issued in the current millisecond (Date.now())
          pending,        \* voice commands and label drafts awaiting a human
          ticketCount,
          confirmed,      \* the tickets confirmed: <<ticket, session that confirmed>>
          appliedKeys,    \* OfflineSyncGate.#appliedKeys
          replayed        \* [SyncKeys -> times the core applied an operation under it]

appVars == <<sessions, posting, issuing, pending, ticketCount, confirmed, appliedKeys, replayed>>
vars == <<coreVars, appVars>>

Roles == {"OWNER", "RECEPTION", "TECHNICIAN"}
Intents == {"ASSIGN_TECHNICIAN", "SET_WAITING_PARTS", "READ"}

RoleAllows(role, intent) ==
    \/ role = "OWNER"
    \/ intent = "READ"
    \/ role = "TECHNICIAN" /\ intent = "SET_WAITING_PARTS"

\* seedDemoData up to its order, which a request opens here.
Init ==
    /\ customers = [c \in Customers |-> IF c = SeedCustomer THEN SeedTenant ELSE None]
    /\ devices = [d \in Devices |-> IF d = SeedDevice
                    THEN [scope |-> SeedTenant, customer |-> SeedCustomer, module |-> SeedModule]
                    ELSE None]
    /\ technicians = [k \in Technicians |-> SeedTenant]
    /\ enabled = [t \in Tenants |-> IF t = SeedTenant THEN Modules ELSE {SeedModule}]
    /\ shop = [orders |-> [o \in Orders |-> None],
               ledger |-> [t \in Tenants |-> [o \in Orders |-> None]]]
    /\ sessions = [s \in Sessions |-> None]
    /\ posting = {} /\ issuing = {} /\ pending = {} /\ ticketCount = 0 /\ confirmed = {}
    /\ appliedKeys = {} /\ replayed = [k \in SyncKeys |-> 0]

----------------------------------------------------------------------------
(* Sessions *)

Live(s) == sessions[s] # None /\ sessions[s].live
TenantOf(s) == sessions[s].tenant

Login(s) == \E l \in Logins :
    /\ sessions[s] = None
    /\ sessions' = [sessions EXCEPT ![s] = [tenant |-> l[1], role |-> l[2], live |-> TRUE]]
    /\ UNCHANGED <<coreVars, posting, issuing, pending, ticketCount, confirmed, appliedKeys, replayed>>

Logout(s) ==
    /\ Live(s)
    /\ sessions' = [sessions EXCEPT ![s].live = FALSE]
    /\ UNCHANGED <<coreVars, posting, issuing, pending, ticketCount, confirmed, appliedKeys, replayed>>

\* The handler has found the session and awaits readBody.
ReceivePost(s) ==
    /\ Live(s) /\ s \notin posting
    /\ posting' = posting \cup {s}
    /\ UNCHANGED <<coreVars, sessions, issuing, pending, ticketCount, confirmed, appliedKeys, replayed>>

\* The body is there; the route runs to its end with the session it found.
Handled(s) == s \in posting /\ posting' = posting \ {s} /\ UNCHANGED sessions

NextMillisecond ==
    /\ issuing # {} /\ issuing' = {}
    /\ UNCHANGED <<coreVars, sessions, posting, pending, ticketCount, confirmed, appliedKeys, replayed>>

\* An id made of Date.now(): unused so far, or issued in this millisecond.
Issue(id, unused) == (unused \/ id \in issuing) /\ issuing' = issuing \cup {id}

----------------------------------------------------------------------------
(* The forms *)

NewCustomer(s, c) ==
    /\ Handled(s) /\ Issue(c, customers[c] = None)
    /\ CreateCustomer(TenantOf(s), c)
    /\ UNCHANGED <<pending, ticketCount, confirmed, appliedKeys, replayed>>

NewDevice(s, d, c, m) ==
    /\ Handled(s) /\ Issue(d, devices[d] = None)
    /\ RegisterDevice(TenantOf(s), d, c, m)
    /\ UNCHANGED <<pending, ticketCount, confirmed, appliedKeys, replayed>>

NewOrder(s, o, d, c) ==
    /\ Handled(s) /\ Issue(o, shop.orders[o] = None)
    /\ shop' = OpenWorkOrder(shop, TenantOf(s), o, d, c)
    /\ UNCHANGED <<customers, devices, technicians, enabled,
                   pending, ticketCount, confirmed, appliedKeys, replayed>>

ToggleModule(s, m) ==
    /\ Handled(s)
    /\ EnableModule(TenantOf(s), m) \/ DisableModule(TenantOf(s), m)
    /\ UNCHANGED <<issuing, pending, ticketCount, confirmed, appliedKeys, replayed>>

\* The requests of the order page's buttons.
ButtonRequests ==
    {Request(to) : to \in {"IN_REPAIR", "WAITING_PARTS", "TESTING", "READY_FOR_PICKUP", "CANCELLED"}}
    \cup {[Request("DIAGNOSING") EXCEPT !.faults = f] : f \in {"known", "unknown"}}
    \cup {[Request("QUOTE_PENDING_APPROVAL") EXCEPT !.quote = q] : q \in {"valid", "invalid"}}
    \cup {[Request("APPROVED") EXCEPT !.approval = a] : a \in BOOLEAN}

OrderAction(s, o) ==
    /\ Handled(s)
    /\ \/ \E req \in ButtonRequests : shop' = ApplyWorkOrderTransition(shop, TenantOf(s), o, req)
       \/ \E k \in Technicians : shop' = AssignTechnician(shop, TenantOf(s), o, k)
       \/ shop' = RecordPartUsed(shop, TenantOf(s), o)
       \/ \E item \in Items :
             shop' = RecordQualityCheck(shop, TenantOf(s), o, item)
       \/ shop' = AddPhotoRef(shop, TenantOf(s), o)
       \/ shop' = DeliverWithWarranty(shop, TenantOf(s), o)
    /\ UNCHANGED <<customers, devices, technicians, enabled, issuing,
                   pending, ticketCount, confirmed, appliedKeys, replayed>>

----------------------------------------------------------------------------
(* Voice commands and label drafts: prepared in a session, run by a human *)

\* A turn that is denied, or only reads, changes nothing but the ledger.
SubmitTurn(s, intent, o, k) ==
    /\ Handled(s)
    /\ IF intent # "READ" /\ RoleAllows(sessions[s].role, intent)
       THEN /\ ticketCount < MaxTickets
            /\ ticketCount' = ticketCount + 1
            /\ pending' = pending \cup {[id |-> ticketCount, session |-> s, intent |-> intent,
                                         order |-> o, tech |-> k]}
       ELSE UNCHANGED <<ticketCount, pending>>
    /\ UNCHANGED <<coreVars, issuing, confirmed, appliedKeys, replayed>>

MayConfirm(s, p) == p.session = s

Confirmed(shp, t, p) ==
    CASE p.intent = "ASSIGN_TECHNICIAN" -> AssignTechnician(shp, t, p.order, p.tech)
      [] p.intent = "SET_WAITING_PARTS" ->
             ApplyWorkOrderTransition(shp, t, p.order, Request("WAITING_PARTS"))
      [] OTHER -> shp

ConfirmPending(s, p) ==
    /\ Handled(s) /\ p \in pending /\ p.intent # "LABEL" /\ MayConfirm(s, p)
    /\ pending' = pending \ {p}
    /\ confirmed' = confirmed \cup {<<p, s>>}
    /\ shop' = Confirmed(shop, TenantOf(s), p)
    /\ UNCHANGED <<customers, devices, technicians, enabled, issuing, ticketCount, appliedKeys, replayed>>

RejectPending(s, p) ==
    /\ Handled(s) /\ p \in pending /\ p.intent # "LABEL" /\ MayConfirm(s, p)
    /\ pending' = pending \ {p}
    /\ UNCHANGED <<coreVars, issuing, ticketCount, confirmed, appliedKeys, replayed>>

\* scanLabel behind the provider's await: a valid extraction becomes a draft.
ScanLabel(s) ==
    /\ Handled(s) /\ ticketCount < MaxTickets
    /\ ticketCount' = ticketCount + 1
    /\ pending' = pending \cup {[id |-> ticketCount, session |-> s, intent |-> "LABEL"]}
    /\ UNCHANGED <<coreVars, issuing, confirmed, appliedKeys, replayed>>

ConfirmDraft(s, p) ==
    /\ Handled(s) /\ p \in pending /\ p.intent = "LABEL" /\ MayConfirm(s, p)
    /\ pending' = pending \ {p}
    /\ confirmed' = confirmed \cup {<<p, s>>}
    /\ UNCHANGED <<coreVars, issuing, ticketCount, appliedKeys, replayed>>

----------------------------------------------------------------------------
(* Offline sync *)

Operations == [key : SyncKeys, scope : Tenants, order : Orders, to : States]

\* Variant that only looks at the keys of earlier envelopes.
AcceptedLax(ops) == {i \in 1..Len(ops) : ops[i].key \notin appliedKeys}

\* evaluate: the places of the operations whose key is not yet counted, neither by
\* an earlier envelope nor earlier in this one.
Accepted(ops) ==
    {i \in 1..Len(ops) : /\ ops[i].key \notin appliedKeys
                         /\ \A j \in 1..(i - 1) : ops[j].key # ops[i].key}

Replay(sh, t, op) == ApplyWorkOrderTransition(sh, t, op.order, Request(op.to))

\* The sync route: a foreign operation rejects the envelope; accepted keys are
\* counted before the core has decided; the core decides on each in turn.
MobileSync(s, ops) ==
    /\ Handled(s)
    /\ IF \E i \in 1..Len(ops) : ops[i].scope # TenantOf(s)
       THEN UNCHANGED <<appliedKeys, replayed, shop>>
       ELSE LET acc == Accepted(ops)
                at[i \in 0..Len(ops)] == IF i = 0 THEN shop
                                         ELSE IF i \in acc THEN Replay(at[i-1], TenantOf(s), ops[i])
                                         ELSE at[i-1]
            IN  /\ appliedKeys' = appliedKeys \cup {ops[i].key : i \in acc}
                /\ shop' = at[Len(ops)]
                /\ replayed' = [k \in SyncKeys |-> replayed[k] +
                      Cardinality({i \in acc : ops[i].key = k /\ at[i] # at[i-1]})]
    /\ UNCHANGED <<customers, devices, technicians, enabled, issuing, pending, ticketCount, confirmed>>

ShopNext ==
    \/ \E s \in Sessions : Login(s) \/ Logout(s) \/ ReceivePost(s) \/ ScanLabel(s)
    \/ NextMillisecond
    \/ \E s \in Sessions, c \in Customers : NewCustomer(s, c)
    \/ \E s \in Sessions, d \in Devices, c \in Customers, m \in Modules : NewDevice(s, d, c, m)
    \/ \E s \in Sessions, o \in Orders, d \in Devices, c \in Customers : NewOrder(s, o, d, c)
    \/ \E s \in Sessions, m \in Modules : ToggleModule(s, m)
    \/ \E s \in Sessions, o \in Orders : OrderAction(s, o)
    \/ \E s \in Sessions, i \in Intents, o \in Orders, k \in Technicians : SubmitTurn(s, i, o, k)
    \/ \E s \in Sessions, p \in pending : ConfirmPending(s, p) \/ RejectPending(s, p) \/ ConfirmDraft(s, p)
    \/ \E s \in Sessions, ops \in Seq(Operations) : MobileSync(s, ops)

ShopSpec == Init /\ [][ShopNext]_vars

----------------------------------------------------------------------------
(* Properties *)

TypeOK ==
    /\ \A o \in Orders : shop.orders[o] # None =>
          /\ shop.orders[o].scope \in Tenants /\ shop.orders[o].state \in States
          /\ devices[shop.orders[o].dev] # None
          /\ shop.orders[o].tech \in Technicians \cup {None}
    /\ \A t \in Tenants : enabled[t] \subseteq Modules
    /\ \A p \in pending : p.id < ticketCount /\ sessions[p.session] # None
    /\ posting \subseteq {s \in Sessions : sessions[s] # None}

\* Replaying a tenant's own partition of the ledger gives that tenant's
\* orders, whichever surface changed them.
LedgerTruth == \A o \in Orders, t \in Tenants : Visible(shop, t, o) =>
    shop.ledger[t][o] = [state |-> shop.orders[o].state, tech |-> shop.orders[o].tech]

\* No repair work and no fitted part without a recorded quote and approval.
RepairConsented == \A o \in Orders :
    (shop.orders[o] # None /\ (shop.orders[o].parts \/ shop.orders[o].state \in
        {"APPROVED", "IN_REPAIR", "WAITING_PARTS", "TESTING", "READY_FOR_PICKUP", "DELIVERED"}))
    => shop.orders[o].quote /\ shop.orders[o].approval

\* Whichever surface assigns a technician (form, or a voice command prepared
\* earlier), at that moment the technician is of the order's shop and holds
\* what the device, as it is registered then, requires.
HazardCertified == \A o \in Orders, k \in Technicians :
    (shop'.orders[o] # None /\ shop'.orders[o].tech = k
     /\ (IF shop.orders[o] = None THEN TRUE ELSE shop.orders[o].tech # k)) =>
         /\ technicians[k] = shop'.orders[o].scope
         /\ HazardCleared(shop', o, k)

\* An order that carries a warranty is delivered and passed its checklist.
WarrantyEarned == \A o \in Orders :
    (shop.orders[o] # None /\ shop.orders[o].warranty) =>
        /\ shop.orders[o].state = "DELIVERED"
        /\ Checklist[shop.orders[o].module] \subseteq shop.orders[o].qc

\* A prepared command runs at most once, in the session that prepared it, and
\* that session's role allows it.
ConfirmedByOwner == \A c \in confirmed :
    /\ c[1].session = c[2] /\ c[1] \notin pending
    /\ c[1].intent # "LABEL" => RoleAllows(sessions[c[2]].role, c[1].intent)
    /\ \A d \in confirmed : d[1].id = c[1].id => d = c

\* An offline operation is applied at most once per idempotency key.
SyncOnce == \A k \in SyncKeys : replayed[k] <= 1

\* An id, once taken, never changes hands between tenants, even when two
\* tenants' forms issue it in the same millisecond.
NoTakeover == \A o \in Orders : shop.orders[o] # None =>
                 shop'.orders[o] # None /\ shop'.orders[o].scope = shop.orders[o].scope

\* "Quality-control items every order of this module must pass before
\* delivery" (module.ts:40): a delivered order passed them.  It does not hold of
\* the code (README, section 5) and is part of no run.
DeliveredChecked == \A o \in Orders :
    (shop.orders[o] # None /\ shop.orders[o].state = "DELIVERED") =>
        Checklist[shop.orders[o].module] \subseteq shop.orders[o].qc

\* The shop's books: the ledger replays to the orders, no repair without the
\* customer's consent, no warranty without the whole checklist.
ShopSafe ==
    /\ TypeOK
    /\ LedgerTruth
    /\ RepairConsented
    /\ WarrantyEarned

\* What is prepared on a surface (a voice command, a label draft, an offline
\* envelope) takes effect once, and only by whom it belongs to.
SurfacesSafe ==
    /\ ConfirmedByOwner
    /\ SyncOnce

\* No step of any surface gives a hazardous job to an uncertified technician or an
\* id of one shop to another.
ShopSteps == [][HazardCertified /\ NoTakeover]_vars
=============================================================================
