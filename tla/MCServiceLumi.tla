---------------------------- MODULE MCServiceLumi ----------------------------
(* Two shops, one order id, one seeded and one new device and customer.  A    *)
(* behaviour uses one of the surfaces beside the forms, so that states add.   *)
EXTENDS ServiceLumi, TLC

CONSTANTS t1, t2, tv, appliance, screen, safety

VARIABLE surface

MCLogins == {<<t1, "OWNER">>, <<t1, "TECHNICIAN">>, <<t2, "OWNER">>}
MCChecklist == [m \in Modules |-> IF m = tv THEN {screen} ELSE {screen, safety}]

MCSymmetry == Permutations(Sessions)

MCInit == Init /\ surface \in {"voice", "label", "sync", "modules"}

\* Envelopes of one or two transitions of the order.
MCEnvelopes ==
    LET Ops == [key : SyncKeys, scope : {t1, t2}, order : Orders,
                to : {"WAITING_PARTS", "IN_REPAIR", "DELIVERED"}]
    IN  {<<a>> : a \in Ops}
        \cup {<<a, b>> : a \in {op \in Ops : op.scope = t1 /\ op.to = "WAITING_PARTS"},
                         b \in {op \in Ops : op.scope = t1 /\ op.to = "IN_REPAIR"}}

MCNext ==
    /\ UNCHANGED surface
    /\ \/ \E s \in Sessions : Login(s) \/ ReceivePost(s)
       \/ surface \in {"voice", "label"} /\ \E s \in Sessions : Logout(s)
       \/ surface = "modules" /\ NextMillisecond
       \/ surface \in {"voice", "sync"} /\ \E s \in Sessions, o \in Orders : OrderAction(s, o)
       \/ \E s \in Sessions, o \in Orders, d \in Devices, c \in Customers : NewOrder(s, o, d, c)
       \/ surface = "modules" /\ \E s \in Sessions, c \in Customers : NewCustomer(s, c)
       \/ surface \in {"modules", "voice"} /\ \E s \in Sessions, d \in Devices, c \in Customers,
             m \in IF surface = "voice" THEN {appliance} ELSE Modules : NewDevice(s, d, c, m)
       \/ surface = "modules" /\ \E s \in Sessions : ToggleModule(s, appliance)
       \/ surface = "voice" /\ \E s \in Sessions, i \in Intents, o \in Orders, k \in Technicians :
             SubmitTurn(s, i, o, k)
       \/ \E s \in Sessions, p \in pending : ConfirmPending(s, p) \/ RejectPending(s, p)
       \/ surface = "label" /\ \E s \in Sessions : ScanLabel(s)
       \/ \E s \in Sessions, p \in pending : ConfirmDraft(s, p)
       \/ surface = "sync" /\ \E s \in Sessions, ops \in MCEnvelopes : MobileSync(s, ops)

MCSpec == MCInit /\ [][MCNext]_<<vars, surface>>

=============================================================================
