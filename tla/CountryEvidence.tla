-------------------------- MODULE CountryEvidence --------------------------
(***************************************************************************)
(* The country evidence of one proxy over its refreshes and reprobes.  A   *)
(* refresh probes both routes (updateRuntime), a reprobe the WARP route    *)
(* only, and only when its evidence is unresolved (ReprobeWarpCountries).  *)
(* Each observation is valid, with a code and a family, or it failed.  All *)
(* writers hold refreshMu, so each is one action.                          *)
(***************************************************************************)
EXTENDS Country

VARIABLES
  countries,   \* Runtime.Countries
  seen         \* seen[route][family]: the last valid observation and the one
               \* before it, NoCountry for none; history for the properties

vars == <<countries, seen>>

(* The family of the exit address and the country seen there, NoCountry    *)
(* for an observation that failed.                                         *)
Observations == (Families \X Codes) \cup {<<"v4", NoCountry>>}

Seen == [last : Codes \cup {NoCountry}, before : Codes \cup {NoCountry}]
NothingSeen == [last |-> NoCountry, before |-> NoCountry]

Remember(s, route, obs) ==
  IF obs[2] = NoCountry THEN s
  ELSE [r \in Routes |-> [f \in Families |->
          IF r = route /\ f = obs[1]
          THEN [last |-> obs[2], before |-> s[r][f].last]
          ELSE s[r][f]]]

Init ==
  /\ countries = NoCountries
  /\ seen = [route \in Routes |-> [family \in Families |-> NothingSeen]]

Refresh(direct, warp) ==
  /\ countries' = Apply(Apply(countries, "direct", direct[1], direct[2]),
                        "warp", warp[1], warp[2])
  /\ seen' = Remember(Remember(seen, "direct", direct), "warp", warp)

Reprobe(warp) ==
  /\ NeedsWarpReprobe(countries)
  /\ countries' = Apply(countries, "warp", warp[1], warp[2])
  /\ seen' = Remember(seen, "warp", warp)

Next ==
  \/ \E direct, warp \in Observations : Refresh(direct, warp)
  \/ \E warp \in Observations : Reprobe(warp)

Spec == Init /\ [][Next]_vars

----------------------------------------------------------------------------
(* The evidence is well typed; a candidate is never on its second count,   *)
(* because the second count makes it the country.                          *)
TypeOK ==
  /\ countries \in RouteCountries
  /\ seen \in [Routes -> [Families -> Seen]]

(* The status tells the truth about the history: a family is CONFIRMED     *)
(* exactly when its last observation agrees with its country, and the      *)
(* candidate of a CONFLICT is the last observation.  A repeat of the       *)
(* current country therefore always ends a conflict.                       *)
StatusIsTrue ==
  \A route \in Routes, family \in Families :
    LET r == countries[route][family]
        last == seen[route][family].last
    IN  IF last = NoCountry THEN r = NoResult
        ELSE /\ r.ObservedCountry = last
             /\ r.Status = IF r.Country = last THEN "CONFIRMED" ELSE "CONFLICT"
             /\ r.Status = "CONFLICT" => r.CandidateCountry = last

(* A view that excludes countries never lists a route one of whose         *)
(* families was last seen in one of them, or was never seen at all: the    *)
(* filter fails closed.                                                    *)
IncludedIsClean ==
  \A route \in Routes, excluded \in SUBSET Codes :
    excluded # {} /\ Filter(countries, route, excluded).Include =>
      /\ \E family \in Families : seen[route][family].last # NoCountry
      /\ \A family \in Families :
           /\ seen[route][family].last \notin excluded
           /\ countries[route][family].Country \notin excluded

(* A family confirmed in an excluded country comes back into the views     *)
(* that exclude it only on two equal observations of another country in a  *)
(* row: one stray answer of a geo provider cannot reopen it.               *)
ReopeningNeedsTwo ==
  [][ \A route \in Routes, family \in Families, excluded \in SUBSET Codes :
        /\ countries[route][family].Country \in excluded
        /\ countries'[route][family].Country \notin excluded
        => seen'[route][family].last = seen'[route][family].before ]_vars

(* A WARP route that is not reprobed is one on which no view fails for     *)
(* want of evidence: selectWarpReprobeCandidates misses no route that the  *)
(* filter counts as unknown or conflicting.                                *)
UnprobedIsResolved ==
  \A excluded \in SUBSET Codes :
    ~NeedsWarpReprobe(countries) =>
      LET d == Filter(countries, "warp", excluded)
      IN  ~d.Unknown /\ ~d.Conflict

(* Evidence cannot stay unresolved under a steady exit: once a family was  *)
(* seen twice in a row at one code, that code is confirmed.                *)
EvidenceSettles ==
  \A route \in Routes, family \in Families :
    LET s == seen[route][family]
    IN  s.last = s.before /\ s.last # NoCountry
          => countries[route][family] = ConfirmedAs(s.last)
=============================================================================
