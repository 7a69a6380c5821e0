----------------------------- MODULE Lifecycle -----------------------------
(***************************************************************************)
(* The two state machines of backend/src/domain: the journey of one        *)
(* passenger's ride request and the trip of one vehicle (a pool), kept as  *)
(* tables of permitted transitions that also name who may perform them.    *)
(***************************************************************************)

\* The status of a row that has not been inserted yet.
None == "none"

RideStatus ==
    {"REQUESTED", "MATCHED", "DRIVER_ARRIVED", "STARTED", "COMPLETED", "CANCELLED"}

PoolStatus == {"FORMING", "DRIVER_ARRIVED", "STARTED", "COMPLETED", "CANCELLED"}

TerminalRideStatus == {"COMPLETED", "CANCELLED"}

TerminalPoolStatus == {"COMPLETED", "CANCELLED"}

ActiveRideStatus == RideStatus \ TerminalRideStatus

ActivePoolStatus == PoolStatus \ TerminalPoolStatus

ActorRole == {"PASSENGER", "DRIVER", "SYSTEM"}

\* The only status in which a pool takes new members.
PoolAcceptsMembers(status) == status = "FORMING"

Rule(to, actors) == [to |-> to, actors |-> actors]

RIDE_RULES ==
    [REQUESTED      |-> {Rule("MATCHED", {"DRIVER"}),
                         Rule("CANCELLED", {"PASSENGER"})},
     MATCHED        |-> {Rule("DRIVER_ARRIVED", {"DRIVER"}),
                         Rule("CANCELLED", {"PASSENGER"}),
                         Rule("REQUESTED", {"SYSTEM"})},
     DRIVER_ARRIVED |-> {Rule("STARTED", {"DRIVER"}),
                         Rule("CANCELLED", {"PASSENGER", "DRIVER"}),
                         Rule("REQUESTED", {"SYSTEM"})},
     STARTED        |-> {Rule("COMPLETED", {"DRIVER"})},
     COMPLETED      |-> {},
     CANCELLED      |-> {}]

POOL_RULES ==
    [FORMING        |-> {Rule("DRIVER_ARRIVED", {"DRIVER"}),
                         Rule("CANCELLED", {"DRIVER"})},
     DRIVER_ARRIVED |-> {Rule("STARTED", {"DRIVER"}),
                         Rule("CANCELLED", {"DRIVER"})},
     STARTED        |-> {Rule("COMPLETED", {"DRIVER"})},
     COMPLETED      |-> {},
     CANCELLED      |-> {}]

CanTransitionRide(from, to, actor) ==
    \E rule \in RIDE_RULES[from] : rule.to = to /\ actor \in rule.actors

CanTransitionPool(from, to, actor) ==
    \E rule \in POOL_RULES[from] : rule.to = to /\ actor \in rule.actors

\* requeueStatusFor(from) # null: a ride of a cancelled pool can go back to the
\* queue.
CanRequeue(from) == CanTransitionRide(from, "REQUESTED", "SYSTEM")
=============================================================================
