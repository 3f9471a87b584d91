------------------------------ MODULE Country ------------------------------
(***************************************************************************)
(* Route country evidence: internal/country/country.go and the two         *)
(* predicates of internal/country/state.go that choose what to reprobe.    *)
(*                                                                         *)
(* The evidence of one address family of one route is a FamilyResult.  The *)
(* exit address and the two timestamps of the code's FamilyResult are left *)
(* out: Observe only copies them and no decision reads them.  A valid      *)
(* observation is a country code with the family its exit address belongs  *)
(* to; NoCountry is the empty string of the code.                          *)
(***************************************************************************)
EXTENDS Integers

CONSTANTS
  Codes,       \* country codes (country.isoAlpha2)
  NoCountry    \* the empty code

ASSUME NoCountryAssumption == NoCountry \notin Codes

Status == {"UNKNOWN", "CONFIRMED", "CONFLICT"}
Families == {"v4", "v6"}
Routes == {"direct", "warp"}

FamilyResults ==
  [ Available        : BOOLEAN,
    Country          : Codes \cup {NoCountry},
    ObservedCountry  : Codes \cup {NoCountry},
    Status           : Status,
    CandidateCountry : Codes \cup {NoCountry},
    CandidateCount   : 0 .. 1 ]

RouteCountries == [Routes -> [Families -> FamilyResults]]

(* FamilyResult{}: the empty status string reads as UNKNOWN everywhere. *)
NoResult ==
  [ Available |-> FALSE, Country |-> NoCountry, ObservedCountry |-> NoCountry,
    Status |-> "UNKNOWN", CandidateCountry |-> NoCountry, CandidateCount |-> 0 ]

NoCountries == [route \in Routes |-> [family \in Families |-> NoResult]]

Result(country, code, status, candidate, count) ==
  [ Available |-> TRUE, Country |-> country, ObservedCountry |-> code,
    Status |-> status, CandidateCountry |-> candidate, CandidateCount |-> count ]

ConfirmedAs(code) == Result(code, code, "CONFIRMED", NoCountry, 0)

(* Defective variant: a repeat of the current code leaves the conflict. *)
ObserveConflictKept(previous, code) ==
  IF previous.Country = NoCountry THEN ConfirmedAs(code)
  ELSE IF code = previous.Country
       THEN Result(code, code, previous.Status, previous.CandidateCountry,
                   previous.CandidateCount)
       ELSE IF previous.CandidateCountry = code THEN ConfirmedAs(code)
            ELSE Result(previous.Country, code, "CONFLICT", code, 1)

(* Defective variant: any second different code confirms itself, also when *)
(* it is not the candidate.                                                *)
ObserveAnyTwo(previous, code) ==
  IF previous.Country \in {NoCountry, code} \/ previous.CandidateCount = 1
  THEN ConfirmedAs(code)
  ELSE Result(previous.Country, code, "CONFLICT", code, 1)

(* Defective variant: a change takes three observations. *)
ObserveThreeTimes(previous, code) ==
  LET count == IF previous.CandidateCountry = code
               THEN previous.CandidateCount + 1 ELSE 1
  IN  IF previous.Country \in {NoCountry, code} \/ count >= 3
      THEN ConfirmedAs(code)
      ELSE Result(previous.Country, code, "CONFLICT", code, count)

(* A valid observation of `code`.  The first one, and any one that agrees, *)
(* confirms; one that differs becomes the candidate, and the second of the *)
(* same candidate replaces the country.                                    *)
Observe(previous, code) ==
  LET count == IF previous.CandidateCountry = code
               THEN previous.CandidateCount + 1 ELSE 1
  IN  IF previous.Country = NoCountry \/ previous.Status = "UNKNOWN"
      THEN ConfirmedAs(code)
      ELSE IF code = previous.Country \/ count >= 2
           THEN ConfirmedAs(code)
           ELSE Result(previous.Country, code, "CONFLICT", code, count)

(* Apply files an observation under its route and the family of its exit   *)
(* address; an invalid one (NoCountry) changes nothing.                    *)
Apply(countries, route, family, code) ==
  IF code = NoCountry THEN countries
  ELSE [r \in Routes |-> [f \in Families |->
          IF r = route /\ f = family THEN Observe(countries[r][f], code)
          ELSE countries[r][f]]]

(* Filter decides whether a view with `excluded` may list the route.       *)
Decision(include, filtered, unknown, conflict) ==
  [ Include |-> include, Filtered |-> filtered,
    Unknown |-> unknown, Conflict |-> conflict ]

(* Defective variant: only the confirmed country is looked up. *)
FilterConfirmedOnly(countries, route, excluded) ==
  LET known == {f \in Families : countries[route][f].Available}
      bad == \E f \in known : countries[route][f].Country \in excluded
  IN  Decision(excluded = {} \/ (~bad /\ known # {}), bad, known = {}, FALSE)

Filter(countries, route, excluded) ==
  LET known == {f \in Families : countries[route][f].Available}
      has(f) == countries[route][f]
      filtered == \E f \in known :
        \/ has(f).Country \in excluded
        \/ has(f).ObservedCountry \in excluded
        \/ has(f).CandidateCountry \in excluded
      unknown ==
        \/ known = {}
        \/ \E f \in known : \/ has(f).Status = "UNKNOWN"
                            \/ has(f).Status = "CONFIRMED" /\ has(f).Country = NoCountry
      conflict == \E f \in known : has(f).Status = "CONFLICT"
  IN  IF excluded = {} THEN Decision(TRUE, FALSE, FALSE, FALSE)
      ELSE Decision(~filtered /\ ~unknown /\ ~conflict,
                    filtered, unknown, conflict)

Stable(result) ==
  result.Available /\ result.Status = "CONFIRMED" /\ result.Country # NoCountry

(* Defective variant: a stable IPv4 is taken to be enough. *)
FamilyNeedsReprobeV4Only(primary, secondary) == ~Stable(primary)

(* IPv4 must be stable, and IPv6 too if it was ever seen. *)
FamilyNeedsReprobe(primary, secondary) ==
  IF Stable(primary)
  THEN /\ secondary.Available
       /\ secondary.Status # "CONFIRMED" \/ secondary.Country = NoCountry
  ELSE TRUE

RouteNeedsReprobe(countries, route) ==
  FamilyNeedsReprobe(countries[route]["v4"], countries[route]["v6"])

NeedsWarpReprobe(countries) == RouteNeedsReprobe(countries, "warp")
=============================================================================
