--------------------------- MODULE AllocationSpec ---------------------------
(***************************************************************************)
(* What Allocator.allocate promises its caller, as one step: a city within *)
(* every limit gets the plan of some shuffle, any other city gets an       *)
(* AllocationError, and the caller always gets one of the two.             *)
(***************************************************************************)
EXTENDS AddressPlan

CONSTANT Cities    \* the cities the loader may assemble

VARIABLES
  city,      \* the model the caller passed
  outcome    \* what the caller has got

vars == <<city, outcome>>

Pending   == [status |-> "pending"]
Failed    == [status |-> "failed"]
Done(plan) == [status |-> "done", plan |-> plan]

Init == city \in Cities /\ outcome = Pending

Allocate ==
  /\ outcome = Pending
  /\ Fits(city)
  /\ \E indices \in Shuffles(Len(city.organizations)) :
       outcome' = Done(Plan(city, indices))
  /\ UNCHANGED city

Refuse ==
  /\ outcome = Pending
  /\ ~ Fits(city)
  /\ outcome' = Failed
  /\ UNCHANGED city

Next == Allocate \/ Refuse

(* No other answer is given, and none is taken back.                       *)
SafeSpec == Init /\ [][Next]_vars

(* The caller is not kept waiting for ever.                                *)
Answered == <>(outcome # Pending)

Spec == SafeSpec /\ Answered

=============================================================================
