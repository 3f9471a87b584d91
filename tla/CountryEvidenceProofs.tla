----------------------- MODULE CountryEvidenceProofs -----------------------
(***************************************************************************)
(* The properties of CountryEvidence, proved for every set of codes.       *)
(*                                                                         *)
(* Families do not interact, so the inductive invariant is one relation    *)
(* between the evidence of a family and what was seen of it, preserved by  *)
(* Observe (ObserveKeepsEvidence) and lifted to routes by Apply.           *)
(***************************************************************************)
EXTENDS CountryEvidence, TLAPS

Evidence(r, s) ==
  /\ r \in FamilyResults
  /\ s \in Seen
  /\ s.last = NoCountry => r = NoResult
  /\ s.last # NoCountry =>
       /\ r.Available
       /\ r.Country \in Codes
       /\ r.ObservedCountry = s.last
       /\ r.Country = s.last => r = ConfirmedAs(s.last)
       /\ r.Country # s.last =>
            r = Result(r.Country, s.last, "CONFLICT", s.last, 1)
       /\ s.before = s.last => r.Country = s.last

EvidenceInv ==
  /\ countries \in [Routes -> [Families -> FamilyResults]]
  /\ seen \in [Routes -> [Families -> Seen]]
  /\ \A route \in Routes, family \in Families :
       Evidence(countries[route][family], seen[route][family])

Push(s, code) == [last |-> code, before |-> s.last]

----------------------------------------------------------------------------
(* One valid observation keeps the evidence of a family true: it either    *)
(* confirms its code, or it contradicts the country and becomes the        *)
(* candidate.                                                              *)
LEMMA ObserveKeepsEvidence ==
  ASSUME NEW r, NEW s, Evidence(r, s), NEW code \in Codes
  PROVE  /\ Evidence(Observe(r, code), Push(s, code))
         /\ Observe(r, code) \in FamilyResults
         /\ Push(s, code) \in Seen
<1>1. /\ s \in Seen /\ s.last \in Codes \cup {NoCountry}
      /\ Push(s, code) \in Seen
      /\ Push(s, code).last = code /\ Push(s, code).before = s.last
      /\ code # NoCountry
  BY NoCountryAssumption DEF Evidence, Push, Seen
<1>2. CASE Observe(r, code) = ConfirmedAs(code)
  <2>1. /\ ConfirmedAs(code) \in FamilyResults
        /\ ConfirmedAs(code).Available
        /\ ConfirmedAs(code).Country = code
        /\ ConfirmedAs(code).ObservedCountry = code
    BY DEF ConfirmedAs, Result, FamilyResults, Status
  <2>2. QED
    BY <1>1, <1>2, <2>1 DEF Evidence
<1>3. CASE /\ s.last # NoCountry /\ s.last # code /\ r.Country # code
           /\ Observe(r, code) = Result(r.Country, code, "CONFLICT", code, 1)
  <2>1. r.Country \in Codes
    BY <1>3 DEF Evidence
  <2>2. /\ Result(r.Country, code, "CONFLICT", code, 1) \in FamilyResults
        /\ Result(r.Country, code, "CONFLICT", code, 1).Available
        /\ Result(r.Country, code, "CONFLICT", code, 1).Country = r.Country
        /\ Result(r.Country, code, "CONFLICT", code, 1).ObservedCountry = code
    BY <2>1 DEF Result, FamilyResults, Status
  <2>3. QED
    BY <1>1, <1>3, <2>1, <2>2 DEF Evidence
<1>4. CASE s.last = NoCountry
  BY <1>2, <1>4 DEF Evidence, NoResult, Observe
<1>5. CASE s.last # NoCountry /\ r.Country = s.last
  <2>1. /\ r.Status = "CONFIRMED" /\ r.CandidateCountry = NoCountry
        /\ r.CandidateCount = 0
    BY <1>5 DEF Evidence, ConfirmedAs, Result
  <2>2. CASE code = r.Country
    BY <1>2, <2>2 DEF Observe
  <2>3. CASE code # r.Country
    BY <1>1, <1>3, <1>5, <2>1, <2>3 DEF Observe
  <2>4. QED
    BY <2>2, <2>3
<1>6. CASE s.last # NoCountry /\ r.Country # s.last
  <2>1. /\ r.Country \in Codes
        /\ r.Status = "CONFLICT" /\ r.CandidateCountry = s.last
        /\ r.CandidateCount = 1
    BY <1>6 DEF Evidence, Result
  <2>2. CASE code = r.Country \/ code = s.last
    BY <1>2, <2>1, <2>2 DEF Observe
  <2>3. CASE code # r.Country /\ code # s.last
    BY <1>1, <1>3, <1>6, <2>1, <2>3, NoCountryAssumption DEF Observe
  <2>4. QED
    BY <2>2, <2>3
<1>7. QED
  BY <1>4, <1>5, <1>6

(* So does filing an observation, valid or not, under its route.           *)
LEMMA ApplyKeepsEvidence ==
  ASSUME NEW c \in [Routes -> [Families -> FamilyResults]],
         NEW s \in [Routes -> [Families -> Seen]],
         \A route \in Routes, family \in Families :
           Evidence(c[route][family], s[route][family]),
         NEW to \in Routes, NEW obs \in Observations
  PROVE  LET nc == Apply(c, to, obs[1], obs[2])
             ns == Remember(s, to, obs)
         IN  /\ nc \in [Routes -> [Families -> FamilyResults]]
             /\ ns \in [Routes -> [Families -> Seen]]
             /\ \A route \in Routes, family \in Families :
                  Evidence(nc[route][family], ns[route][family])
<1> DEFINE nc == Apply(c, to, obs[1], obs[2])
           ns == Remember(s, to, obs)
<1>1. CASE obs[2] = NoCountry
  BY <1>1 DEF Apply, Remember
<1>2. CASE obs[2] # NoCountry
  <2>1. obs[1] \in Families /\ obs[2] \in Codes
    BY <1>2 DEF Observations
  <2>2. nc = [r \in Routes |-> [f \in Families |->
               IF r = to /\ f = obs[1] THEN Observe(c[r][f], obs[2])
               ELSE c[r][f]]]
    BY <1>2 DEF Apply
  <2>3. ns = [r \in Routes |-> [f \in Families |->
               IF r = to /\ f = obs[1] THEN Push(s[r][f], obs[2])
               ELSE s[r][f]]]
    BY <1>2 DEF Remember, Push
  <2>4. ASSUME NEW route \in Routes, NEW family \in Families
        PROVE  /\ nc[route][family] \in FamilyResults
               /\ ns[route][family] \in Seen
               /\ Evidence(nc[route][family], ns[route][family])
    <3>1. CASE route = to /\ family = obs[1]
      <4>1. /\ nc[route][family] = Observe(c[route][family], obs[2])
            /\ ns[route][family] = Push(s[route][family], obs[2])
        BY <2>2, <2>3, <3>1
      <4>2. Evidence(c[route][family], s[route][family])
        OBVIOUS
      <4>3. QED
        BY <2>1, <4>1, <4>2, ObserveKeepsEvidence
    <3>2. CASE ~(route = to /\ family = obs[1])
      <4>1. /\ nc[route][family] = c[route][family]
            /\ ns[route][family] = s[route][family]
        BY <2>2, <2>3, <3>2
      <4>2. QED
        BY <4>1
    <3>3. QED
      BY <3>1, <3>2
  <2>5. nc \in [Routes -> [Families -> FamilyResults]]
    BY <2>2, <2>4
  <2>6. ns \in [Routes -> [Families -> Seen]]
    BY <2>3, <2>4
  <2>7. QED
    BY <2>4, <2>5, <2>6
<1>3. QED
  BY <1>1, <1>2

(* Nothing has been observed at the start.                                 *)
LEMMA InitEvidence == Init => EvidenceInv
  BY NoCountryAssumption
  DEF Init, EvidenceInv, Evidence, NoCountries, NothingSeen, NoResult,
      FamilyResults, Seen, Status

(* Every refresh and reprobe keeps the invariant.                          *)
LEMMA NextEvidence ==
  ASSUME EvidenceInv, [Next]_vars
  PROVE  EvidenceInv'
<1>1. ASSUME NEW direct \in Observations, NEW warp \in Observations,
             Refresh(direct, warp)
      PROVE  EvidenceInv'
  <2> DEFINE c == Apply(countries, "direct", direct[1], direct[2])
             s == Remember(seen, "direct", direct)
  <2>1. /\ c \in [Routes -> [Families -> FamilyResults]]
        /\ s \in [Routes -> [Families -> Seen]]
        /\ \A route \in Routes, family \in Families :
             Evidence(c[route][family], s[route][family])
    BY ApplyKeepsEvidence DEF EvidenceInv, Routes
  <2>2. /\ countries' = Apply(c, "warp", warp[1], warp[2])
        /\ seen' = Remember(s, "warp", warp)
    BY <1>1 DEF Refresh
  <2> HIDE DEF c, s
  <2>3. QED
    BY <2>1, <2>2, ApplyKeepsEvidence DEF EvidenceInv, Routes
<1>2. ASSUME NEW warp \in Observations, Reprobe(warp)
      PROVE  EvidenceInv'
  BY <1>2, ApplyKeepsEvidence DEF Reprobe, EvidenceInv, Routes
<1>3. CASE UNCHANGED vars
  BY <1>3 DEF vars, EvidenceInv
<1>4. QED
  BY <1>1, <1>2, <1>3 DEF Next

(* EvidenceInv is an invariant of the specification.                       *)
THEOREM EvidenceInvariant == Spec => []EvidenceInv
<1>1. EvidenceInv /\ [Next]_vars => EvidenceInv'
  BY NextEvidence
<1>2. QED
  BY <1>1, InitEvidence, PTL DEF Spec

(* The evidence is well typed, and no candidate reaches its second count.  *)
THEOREM EvidenceTypeCorrect == Spec => []TypeOK
<1>1. EvidenceInv => TypeOK
  BY DEF EvidenceInv, TypeOK, RouteCountries
<1>2. QED
  BY <1>1, EvidenceInvariant, PTL

(* A family is CONFIRMED exactly when it was last seen where it is said to *)
(* be, so one agreeing observation ends any conflict.                      *)
THEOREM StatusIsAlwaysTrue == Spec => []StatusIsTrue
<1>1. ASSUME EvidenceInv, NEW route \in Routes, NEW family \in Families
      PROVE  LET r == countries[route][family]
                 last == seen[route][family].last
             IN  IF last = NoCountry THEN r = NoResult
                 ELSE /\ r.ObservedCountry = last
                      /\ r.Status = IF r.Country = last THEN "CONFIRMED"
                                    ELSE "CONFLICT"
                      /\ r.Status = "CONFLICT" => r.CandidateCountry = last
  <2> DEFINE r == countries[route][family]
             s == seen[route][family]
  <2>1. Evidence(r, s)
    BY <1>1 DEF EvidenceInv
  <2> HIDE DEF r, s
  <2>2. CASE s.last = NoCountry
    BY <2>1, <2>2 DEF Evidence, r, s
  <2>3. CASE s.last # NoCountry /\ r.Country = s.last
    <3>1. r.Status = "CONFIRMED" /\ r.ObservedCountry = s.last
      BY <2>1, <2>3 DEF Evidence, ConfirmedAs, Result
    <3>2. QED
      BY <2>3, <3>1 DEF r, s
  <2>4. CASE s.last # NoCountry /\ r.Country # s.last
    <3>1. /\ r.Status = "CONFLICT" /\ r.ObservedCountry = s.last
          /\ r.CandidateCountry = s.last
      BY <2>1, <2>4 DEF Evidence, Result
    <3>2. QED
      BY <2>4, <3>1 DEF r, s
  <2>5. QED
    BY <2>2, <2>3, <2>4
<1>2. EvidenceInv => StatusIsTrue
  BY <1>1 DEF StatusIsTrue
<1>3. QED
  BY <1>2, EvidenceInvariant, PTL

(* Two equal observations in a row always leave the family confirmed.      *)
THEOREM EvidenceAlwaysSettles == Spec => []EvidenceSettles
<1>1. EvidenceInv => EvidenceSettles
  BY DEF EvidenceInv, Evidence, EvidenceSettles
<1>2. QED
  BY <1>1, EvidenceInvariant, PTL

(* The filter never includes a route last seen in an excluded country, nor *)
(* one that was never seen.                                                *)
THEOREM FilterFailsClosed == Spec => []IncludedIsClean
<1>1. ASSUME EvidenceInv, NEW route \in Routes, NEW excluded \in SUBSET Codes,
             excluded # {}, Filter(countries, route, excluded).Include
      PROVE  /\ \E family \in Families : seen[route][family].last # NoCountry
             /\ \A family \in Families :
                  /\ seen[route][family].last \notin excluded
                  /\ countries[route][family].Country \notin excluded
  <2> DEFINE known == {f \in Families : countries[route][f].Available}
  <2>1. /\ known # {}
        /\ \A f \in known : /\ countries[route][f].Country \notin excluded
                            /\ countries[route][f].ObservedCountry \notin excluded
    BY <1>1 DEF Filter, Decision
  <2>2. ASSUME NEW family \in Families
        PROVE  /\ family \in known <=> seen[route][family].last # NoCountry
               /\ family \notin known =>
                    /\ seen[route][family].last = NoCountry
                    /\ countries[route][family].Country = NoCountry
               /\ family \in known =>
                    seen[route][family].last
                      = countries[route][family].ObservedCountry
    BY <1>1 DEF EvidenceInv, Evidence, NoResult
  <2>3. NoCountry \notin excluded
    BY NoCountryAssumption
  <2>4. QED
    BY <2>1, <2>2, <2>3
<1>2. EvidenceInv => IncludedIsClean
  BY <1>1 DEF IncludedIsClean
<1>3. QED
  BY <1>2, EvidenceInvariant, PTL

(* Every WARP route left alone by the reprobe is resolved for the filter.  *)
THEOREM UnprobedIsAlwaysResolved == Spec => []UnprobedIsResolved
<1>1. EvidenceInv => UnprobedIsResolved
  BY DEF UnprobedIsResolved, NeedsWarpReprobe, RouteNeedsReprobe,
         FamilyNeedsReprobe, Stable, Filter, Decision, Families, EvidenceInv,
         Evidence, FamilyResults, Routes, Status
<1>2. QED
  BY <1>1, EvidenceInvariant, PTL
----------------------------------------------------------------------------
(* A family changes its country only on a repeat of what it saw last.      *)
LEMMA ObserveChangesOnRepeat ==
  ASSUME NEW r, NEW s, Evidence(r, s), NEW code \in Codes,
         r.Country \in Codes, Observe(r, code).Country # r.Country
  PROVE  code = s.last
<1>1. s.last # NoCountry
  BY NoCountryAssumption DEF Evidence, NoResult
<1>2. r.Country # s.last
  <2>1. SUFFICES ASSUME r.Country = s.last PROVE FALSE
    OBVIOUS
  <2>2. r.CandidateCountry = NoCountry /\ r.Status = "CONFIRMED"
    BY <1>1, <2>1 DEF Evidence, ConfirmedAs, Result
  <2>3. QED
    BY <2>2, NoCountryAssumption DEF Observe, ConfirmedAs, Result
<1>3. r.Status = "CONFLICT" /\ r.CandidateCountry = s.last
  BY <1>1, <1>2 DEF Evidence, Result
<1>4. QED
  BY <1>3, NoCountryAssumption DEF Observe, ConfirmedAs, Result

(* An observation filed under one route and family leaves the others alone.*)
LEMMA ApplyIsLocal ==
  ASSUME NEW c \in [Routes -> [Families -> FamilyResults]],
         NEW s \in [Routes -> [Families -> Seen]],
         NEW to \in Routes, NEW obs \in Observations,
         NEW route \in Routes, NEW family \in Families
  PROVE  LET nc == Apply(c, to, obs[1], obs[2])[route][family]
             ns == Remember(s, to, obs)[route][family]
         IN  \/ nc = c[route][family] /\ ns = s[route][family]
             \/ /\ route = to /\ obs[2] \in Codes
                /\ nc = Observe(c[route][family], obs[2])
                /\ ns = Push(s[route][family], obs[2])
<1>1. CASE obs[2] = NoCountry
  BY <1>1 DEF Apply, Remember
<1>2. CASE obs[2] # NoCountry
  <2>1. obs[2] \in Codes
    BY <1>2 DEF Observations
  <2>2. Apply(c, to, obs[1], obs[2])[route][family]
          = IF route = to /\ family = obs[1] THEN Observe(c[route][family], obs[2])
            ELSE c[route][family]
    BY <1>2 DEF Apply
  <2>3. Remember(s, to, obs)[route][family]
          = IF route = to /\ family = obs[1] THEN Push(s[route][family], obs[2])
            ELSE s[route][family]
    BY <1>2 DEF Remember, Push
  <2>4. QED
    BY <2>1, <2>2, <2>3
<1>3. QED
  BY <1>1, <1>2

(* What one step does to one family: nothing, or one valid observation.    *)
LEMMA StepOfAFamily ==
  ASSUME EvidenceInv, [Next]_vars, NEW route \in Routes, NEW family \in Families
  PROVE  \/ countries'[route][family] = countries[route][family]
         \/ \E code \in Codes :
              /\ countries'[route][family] = Observe(countries[route][family], code)
              /\ seen'[route][family] = Push(seen[route][family], code)
<1>1. ASSUME NEW direct \in Observations, NEW warp \in Observations,
             Refresh(direct, warp)
      PROVE  \/ countries'[route][family] = countries[route][family]
             \/ \E code \in Codes :
                  /\ countries'[route][family] = Observe(countries[route][family], code)
                  /\ seen'[route][family] = Push(seen[route][family], code)
  <2> DEFINE c == Apply(countries, "direct", direct[1], direct[2])
             s == Remember(seen, "direct", direct)
  <2>1. /\ c \in [Routes -> [Families -> FamilyResults]]
        /\ s \in [Routes -> [Families -> Seen]]
    BY ApplyKeepsEvidence DEF EvidenceInv, Routes
  <2>2. \/ c[route][family] = countries[route][family]
           /\ s[route][family] = seen[route][family]
        \/ /\ route = "direct" /\ direct[2] \in Codes
           /\ c[route][family] = Observe(countries[route][family], direct[2])
           /\ s[route][family] = Push(seen[route][family], direct[2])
    BY ApplyIsLocal DEF EvidenceInv, Routes
  <2>3. /\ countries' = Apply(c, "warp", warp[1], warp[2])
        /\ seen' = Remember(s, "warp", warp)
    BY <1>1 DEF Refresh
  <2> HIDE DEF c, s
  <2>4. \/ countries'[route][family] = c[route][family]
           /\ seen'[route][family] = s[route][family]
        \/ /\ route = "warp" /\ warp[2] \in Codes
           /\ countries'[route][family] = Observe(c[route][family], warp[2])
           /\ seen'[route][family] = Push(s[route][family], warp[2])
    BY <2>1, <2>3, ApplyIsLocal DEF Routes
  <2>5. QED
    BY <2>2, <2>4
<1>2. ASSUME NEW warp \in Observations, Reprobe(warp)
      PROVE  \/ countries'[route][family] = countries[route][family]
             \/ \E code \in Codes :
                  /\ countries'[route][family] = Observe(countries[route][family], code)
                  /\ seen'[route][family] = Push(seen[route][family], code)
  BY <1>2, ApplyIsLocal DEF Reprobe, EvidenceInv, Routes
<1>3. CASE UNCHANGED vars
  BY <1>3 DEF vars
<1>4. QED
  BY <1>1, <1>2, <1>3 DEF Next

(* One stray observation never takes a family out of an excluded country.  *)
THEOREM ReopeningTakesTwo == Spec => ReopeningNeedsTwo
<1> DEFINE Reopens ==
      \A route \in Routes, family \in Families, excluded \in SUBSET Codes :
        /\ countries[route][family].Country \in excluded
        /\ countries'[route][family].Country \notin excluded
        => seen'[route][family].last = seen'[route][family].before
<1>1. ASSUME EvidenceInv, [Next]_vars
      PROVE  Reopens
  <2>1. SUFFICES ASSUME NEW route \in Routes, NEW family \in Families,
                        NEW excluded \in SUBSET Codes,
                        countries[route][family].Country \in excluded,
                        countries'[route][family].Country \notin excluded
                 PROVE  seen'[route][family].last = seen'[route][family].before
    OBVIOUS
  <2>2. PICK code \in Codes :
          /\ countries'[route][family] = Observe(countries[route][family], code)
          /\ seen'[route][family] = Push(seen[route][family], code)
    BY <1>1, <2>1, StepOfAFamily
  <2>3. Evidence(countries[route][family], seen[route][family])
    BY <1>1 DEF EvidenceInv
  <2>4. code = seen[route][family].last
    BY <2>1, <2>2, <2>3, ObserveChangesOnRepeat
  <2>5. QED
    BY <2>2, <2>4 DEF Push
<1>2. EvidenceInv /\ [Next]_vars => [Reopens]_vars
  BY <1>1
<1>3. QED
  BY <1>2, EvidenceInvariant, PTL DEF Spec, ReopeningNeedsTwo
=============================================================================
