------------------------- MODULE MCCourseSessions -------------------------
(* Instances of CourseSessions for TLC. *)
EXTENDS CourseSessions, TLC

(* A lesson block of four lessons and one call, and one of two lessons and *)
(* two calls, at the same time.                                            *)
LongBlock == [start |-> 0, end |-> 2, lessons |-> 4, calls |-> 1]
ShortBlock == [start |-> 0, end |-> 2, lessons |-> 2, calls |-> 2]
TwoConfigs == {LongBlock, ShortBlock}
TwoDays == {0, 1}

Nothing == [days |-> {}, meetings |-> [m \in {} |-> LongBlock]]
Weekly(c) == [days |-> Day, meetings |-> [m \in Meeting |-> c]]
NoneOrLong == {Nothing, Weekly(LongBlock)}

Attendance(status, absences) ==
  [kind |-> "attendance", status |-> status, absences |-> absences]
Calendar(status) == [kind |-> "calendar", status |-> status, absences |-> Unset]

(* An edit with the default absences and a cancellation. *)
EditPayloads == {Attendance("ausente", Omitted), 
                 Calendar("cancelled")}

Captured(ping, expected, captured) ==
  [ping |-> ping, expected |-> expected, captured |-> captured]
Payload(c, first, second) ==
  [slot |-> SlotOf(0, c), first |-> first, second |-> second]

(* What a device delivers for either configuration: both pings or one.     *)
BothBlocks ==
  {Payload(LongBlock, Captured("fora", 1, 1), Captured("fora", 1, 1)),
   Payload(ShortBlock, Captured("fora", 1, 1), Captured("no_campus", 1, 1)),
   Payload(ShortBlock, Captured("fora", 1, 1), NoReport)}
(* For the long one: both pings, the second one failed or not made.        *)
LongBlocks ==
  {Payload(LongBlock, Captured("no_campus", 1, 1), NoReport),
   Payload(LongBlock, Captured("fora", 1, 1), Captured("fora", 1, 1)),
   Payload(LongBlock, Captured("fora", 1, 1), Captured("indisponivel", 1, Unset))}

Payloads == BothBlocks \cup LongBlocks

FirstDay(c) == [days |-> {0}, meetings |-> [m \in Meeting |-> c]]
(* Schedules for the first day, none, and one without a period. *)
Requests == {Nothing, FirstDay(LongBlock), FirstDay(ShortBlock),
             [FirstDay(ShortBlock) EXCEPT !.days = {}]}

(* Who takes part in a behaviour.  A course without a schedule is given    *)
(* schedules beside edits and a device; one with a schedule on both days   *)
(* has holidays beside edits and two deliveries, or beside schedules.      *)
CONSTANTS e1, d1, d2, v1, h1
VARIABLE crew

Crews == IF course.days = {} THEN {{e1, d1, v1}, {e1, d2, v1}}
         ELSE {{e1, d1, d2, h1}, {v1, h1}}
Delivered == IF v1 \in crew THEN BothBlocks ELSE LongBlocks
MCInit == Init /\ crew \in Crews
MCNext ==
  /\ Next /\ UNCHANGED crew /\ InFlight' \subseteq crew
  /\ \A v \in Saver : saver'[v] # IdleSaver => saver'[v].ask \in Requests
  /\ \A d \in Delivery : delivery'[d] # IdleDelivery => delivery'[d].evidence \in Delivered
MCSpec == MCInit /\ [][MCNext]_<<vars, crew>>

Symmetry == Permutations(Delivery)
=============================================================================
