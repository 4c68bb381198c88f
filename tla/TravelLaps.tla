----------------------------- MODULE TravelLaps -----------------------------
(***************************************************************************)
(* Assignment3: the cars of the travel simulator.  Every lap has 500 km,   *)
(* so many of them in the city as track says, the rest on the highway, and *)
(* the tank is filled before both.  What the cars have to log depends on   *)
(* the fuel; how it is logged is RemoteLog's part.                         *)
(*                                                                         *)
(* Fuel is counted in hundredths of a litre.  The doubles of the code      *)
(* differ from it by their rounding, which decides no comparison: the only *)
(* one that is met exactly (12.5 l on each of 400 km / 100) is exact there *)
(* too.                                                                    *)
(***************************************************************************)
EXTENDS Integers

Cars == 1 .. 4
CityUse == <<820, 780, 1060, 1729>>      \* on 100 km
HighwayUse == <<620, 580, 750, 1250>>
Full == 5000

VARIABLES
  lpc,        \* where main is in its lap
  car,        \* the car whose turn it is
  track,
  isRunning,
  tank,       \* fuelInTank of every car
  said        \* what the last call for a car has logged

lapvars == <<lpc, car, track, isRunning, tank, said>>

Legs == {"empty", "fuel", "city", "refuel", "highway"}

Init ==
  /\ lpc = "test"
  /\ car = 1
  /\ track = 1
  /\ isRunning = TRUE
  /\ tank = [c \in Cars |-> 0]
  /\ said = "nothing"

cityDistance == track                    \* in 100 km
highwayDistance == 5 - cityDistance

(* The four cars one after the other, then the next part of the lap. *)
NextCar(next) ==
  IF car = 4 THEN car' = 1 /\ lpc' = next ELSE car' = car + 1 /\ UNCHANGED lpc

LapTest ==
  /\ lpc = "test"
  /\ lpc' = IF isRunning THEN "empty" ELSE "report"
  /\ UNCHANGED <<car, track, isRunning, tank, said>>

EmptyFuel ==
  /\ lpc = "empty"
  /\ tank' = [tank EXCEPT ![car] = 0]
  /\ said' = "nothing"
  /\ NextCar("fuel")
  /\ UNCHANGED <<track, isRunning>>

(* What does not fit is thrown away, with a warning. *)
Filled(fuel) == IF fuel + 5000 > Full THEN Full ELSE fuel + 5000

AddFuel ==
  /\ lpc \in {"fuel", "refuel"}
  /\ tank' = [tank EXCEPT ![car] = Filled(@)]
  /\ said' = IF tank[car] + 5000 > Full THEN "WARNING" ELSE "nothing"
  /\ NextCar(IF lpc = "fuel" THEN "city" ELSE "highway")
  /\ UNCHANGED <<track, isRunning>>

Consumed ==
  IF lpc = "city" THEN CityUse[car] * cityDistance ELSE HighwayUse[car] * highwayDistance

(* Only the lower bound is looked at here. *)
Rest(fuel, used) == IF fuel - used < 0 THEN 0 ELSE fuel - used

Drive ==
  /\ lpc \in {"city", "highway"}
  /\ tank' = [tank EXCEPT ![car] = Rest(@, Consumed)]
  /\ said' = IF tank[car] - Consumed < 0 THEN "ERROR" ELSE "nothing"
  /\ NextCar(IF lpc = "city" THEN "refuel" ELSE "track")
  /\ UNCHANGED <<track, isRunning>>

(* Mutant: a sixth track, with a highway of -100 km. *)
NextTrackSix ==
  /\ lpc = "track"
  /\ track' = (track % 6) + 1
  /\ lpc' = "test"
  /\ UNCHANGED <<car, isRunning, tank, said>>

NextTrack ==
  /\ lpc = "track"
  /\ track' = ((track + 1) % 5) + 1
  /\ lpc' = "test"
  /\ UNCHANGED <<car, isRunning, tank, said>>

(* ctrl-C *)
Stop ==
  /\ isRunning
  /\ isRunning' = FALSE
  /\ UNCHANGED <<lpc, car, track, tank, said>>

Next == LapTest \/ EmptyFuel \/ AddFuel \/ Drive \/ NextTrack \/ Stop

Spec == Init /\ [][Next]_lapvars

-----------------------------------------------------------------------------
(* A tank is never overfull nor below empty: drive does not look at the upper
   bound and relies on main for a distance that is not negative, which is so
   only as long as the tracks go round among 1 to 5. *)
TankHolds ==
  /\ track \in 1 .. 5
  /\ tank \in [Cars -> 0 .. Full]

TypeOK ==
  /\ lpc \in Legs \union {"test", "track", "report"}
  /\ car \in Cars
  /\ isRunning \in BOOLEAN
  /\ said \in {"nothing", "WARNING", "ERROR"}
  /\ TankHolds

=============================================================================
