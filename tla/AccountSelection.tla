--------------------------- MODULE AccountSelection ---------------------------
(***************************************************************************)
(* How balanced routing weighs accounts by what is known of their usage    *)
(* (src/claudex/balanced/selection.py and the part of the router that      *)
(* feeds it), and when a 429 says something of one model family only.      *)
(*                                                                         *)
(* A reading is what the last usage poll said of one window: the percent   *)
(* used, its age, and the time left to the window's reset on each of the   *)
(* two clocks.  The draw itself hashes the request: any account that may   *)
(* be drawn can be the one.  The warnings that would halve a weight are    *)
(* never fed in by the program, so a weight is the headroom alone.         *)
(***************************************************************************)
EXTENDS Integers, FiniteSets, FiniteSetsExt

CONSTANTS
  FreshExact,  \* _FRESH_EXACT_SECONDS: a reading this young is taken as it is
  FreshPlus5,  \* _FRESH_PLUS5_SECONDS: ... counts 5 points more
  FreshPlus10, \* _FRESH_PLUS10_SECONDS: ... 10 points more; older is unknown
  GateMaxAge   \* _FAMILY_GATE_MAX_OBSERVATION_AGE_SECONDS

ASSUME SelectionAssumption ==
  /\ {FreshExact, FreshPlus5, FreshPlus10, GateMaxAge} \subseteq Nat
  /\ FreshExact <= FreshPlus5 /\ FreshPlus5 <= FreshPlus10
  /\ GateMaxAge <= FreshPlus10

Windows == {"five_hour", "seven_day", "fable_weekly"}
Families == {"default", "fable"}

Unknown == -1
NoReset == -1
Unread == [used |-> Unknown, age |-> 0, resetMono |-> NoReset, resetWall |-> NoReset]
NothingRead == [w \in Windows |-> Unread]

BindingWindows(family) ==
  IF family = "fable" THEN Windows ELSE Windows \ {"fable_weekly"}

(* What the age of a reading adds to it.                                   *)
AgeMargin(age) ==
  CASE age <= FreshExact -> 0
    [] age > FreshExact /\ age <= FreshPlus5 -> 5
    [] OTHER -> 10

FreshnessAdjustedPressure(reading) ==
  IF reading = Unread \/ reading.resetMono = 0 \/ reading.age > FreshPlus10
  THEN Unknown
  ELSE Min({100, reading.used + AgeMargin(reading.age)})

(* A reading the family gate may rely on: no floor stands in for it.       *)
RealWindowReading(reading) ==
  IF reading.age > GateMaxAge THEN Unknown ELSE FreshnessAdjustedPressure(reading)

UnknownFloor(complete) ==
  IF complete = {} THEN 0 ELSE Min({90, Min(complete) + 10})

CandidateSetUnknownFloor(view, accounts, family) ==
  UnknownFloor({FreshnessAdjustedPressure(view[a][w]) :
                  a \in accounts, w \in BindingWindows(family)} \ {Unknown})

AccountPressure(view, a, family, floor) ==
  LET pressure(w) == FreshnessAdjustedPressure(view[a][w])
  IN  Max({IF pressure(w) = Unknown THEN floor ELSE pressure(w) :
             w \in BindingWindows(family)})

AccountHeadroom(pressure, inFlight) == Max({0, 100 - pressure - 2 * inFlight})

(* A bug: without the emergency weights nobody is drawn when all are full. *)
SelectWeights_NoEmergency(headroom) == {a \in DOMAIN headroom : headroom[a] > 0}

(* The accounts with a positive weight: those with headroom, or all of     *)
(* them, by their emergency weight, when nobody has any.                   *)
SelectWeights(headroom) ==
  LET positive == {a \in DOMAIN headroom : headroom[a] > 0}
  IN  IF positive = {} THEN DOMAIN headroom ELSE positive

(* Whom a weighted draw among the eligible accounts can return.            *)
CanBeDrawn(view, eligible, family, inFlight) ==
  LET floor == CandidateSetUnknownFloor(view, eligible, family)
  IN  SelectWeights([a \in eligible |->
        AccountHeadroom(AccountPressure(view, a, family, floor), inFlight[a])])

(* The six conditions under which a 429 is about the fable family only.    *)
FamilyGate(windows, family) ==
  LET real(w) == RealWindowReading(windows[w])
  IN  /\ family = "fable"
      /\ real("fable_weekly") >= 99
      /\ real("five_hour") # Unknown /\ real("five_hour") <= 70
      /\ real("seven_day") # Unknown /\ real("seven_day") <= 70
      /\ windows["fable_weekly"].resetMono > 0
===============================================================================
