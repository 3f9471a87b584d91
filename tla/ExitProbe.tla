----------------------------- MODULE ExitProbe -----------------------------
(***************************************************************************)
(* exitprobe.ProbeAll: the probes of a refresh, which run at the same time *)
(* and share what the address database says of an exit address.  A probe   *)
(* looks into the memo under geoMu, lets geoMu go, and asks through a      *)
(* singleflight group, whose owner looks into the memo again, asks the     *)
(* database and writes the memo; a failure is remembered too.              *)
(*                                                                         *)
(* Everything between two lookups is the probe's own: its requests through *)
(* its own outbounds are one step, Measure, that takes any outcome.  An    *)
(* observation is an exit address with a country; names stand for both the *)
(* database's country and its city and provider.                           *)
(***************************************************************************)
EXTENDS Integers, FiniteSets

CONSTANTS
  Probes,       \* the positions of the probed records
  MaxProbing,   \* config.MaxConcurrent
  Exits,        \* exit addresses
  Places,       \* countries
  NoPlace,      \* no country
  NoExit        \* no exit address

ASSUME MaxProbingAssumption == MaxProbing \in Nat \ {0}
ASSUME PositionsAssumption == Probes \subseteq Nat \ {0}

VARIABLES
  geoByIP,     \* the memo: exit addresses to countries, NoPlace for failures
  geoGroup,    \* geoGroup[exit]: the probe that owns the lookup, or 0
  probe,       \* probe[i]: where probe i is, and what it has
  told         \* told[i]: what lookupObservedExit told probe i; history

probeVars == <<geoByIP, geoGroup, probe, told>>

NoObservation == [IP |-> NoExit, Country |-> NoPlace]
Observation(ip, place) == [IP |-> ip, Country |-> place]
Valid(observation) == observation # NoObservation

Unstarted ==
  [ pc |-> "none", asks |-> NoExit, answer |-> NoPlace, then |-> "none",
    direct |-> NoObservation, warp |-> NoObservation, warpGeo |-> NoPlace,
    reachable |-> FALSE ]

ProbeInit ==
  /\ geoByIP = [e \in {} |-> NoPlace]
  /\ geoGroup = [e \in Exits |-> 0]
  /\ probe = [i \in Probes |-> Unstarted]
  /\ told = [i \in Probes |-> {}]

(* ep.Stop: the next refresh has a prober of its own. *)
ForgetProber ==
  /\ geoByIP' = [e \in {} |-> NoPlace]
  /\ geoGroup' = [e \in Exits |-> 0]
  /\ probe' = [i \in Probes |-> Unstarted]
  /\ told' = [i \in Probes |-> {}]

Running == {i \in Probes : probe[i].pc \notin {"none", "done"}}
At(i, pc) == probe[i].pc = pc
Goto(i, pc) == probe' = [probe EXCEPT ![i].pc = pc]

(* The observer names the exit address, or it does not.  With the context  *)
(* of the refresh at its end the probe is over before it starts.           *)
StartProbe(i) ==
  /\ At(i, "none")
  /\ Cardinality(Running) < MaxProbing
  /\ \/ Goto(i, "done")
     \/ Goto(i, "measure")
     \/ \E ip \in Exits :
          probe' = [probe EXCEPT ![i].pc = "memo", ![i].asks = ip, ![i].then = "direct"]
  /\ UNCHANGED <<geoByIP, geoGroup, told>>

(***************************************************************************)
(* lookupObservedExit.                                                     *)
(***************************************************************************)
(* What the probe does with the country it is told: the direct observation *)
(* at first, and the name of the WARP exit at the end, if the database     *)
(* agrees with the trace (finalWarpGeo).                                   *)
With(state, place) ==
  IF state.then = "direct"
  THEN [state EXCEPT !.pc = "measure", !.answer = NoPlace,
          !.direct = IF place = NoPlace THEN NoObservation ELSE Observation(state.asks, place)]
  ELSE [state EXCEPT !.pc = "done", !.answer = NoPlace,
          !.warpGeo = IF place = state.warp.Country THEN place ELSE NoPlace]

Tell(probes, place) ==
  /\ probe' = [i \in Probes |-> IF i \in probes THEN With(probe[i], place) ELSE probe[i]]
  /\ told' = [i \in Probes |->
                IF i \in probes THEN told[i] \cup {Observation(probe[i].asks, place)}
                ELSE told[i]]

Known(i) == probe[i].asks \in DOMAIN geoByIP

(* Under geoMu: the memo answers, or the group is asked. *)
LookIntoMemo(i) ==
  /\ At(i, "memo")
  /\ IF Known(i) THEN Tell({i}, geoByIP[probe[i].asks])
     ELSE Goto(i, "group") /\ UNCHANGED told
  /\ UNCHANGED <<geoByIP, geoGroup>>

(* geoGroup.Do: the first to come owns the call, the others wait for it.   *)
JoinGroup(i) ==
  /\ At(i, "group")
  /\ IF geoGroup[probe[i].asks] = 0
     THEN /\ geoGroup' = [geoGroup EXCEPT ![probe[i].asks] = i]
          /\ Goto(i, "recheck")
     ELSE /\ Goto(i, "wait")
          /\ UNCHANGED geoGroup
  /\ UNCHANGED <<geoByIP, told>>

(* Defective variant: the owner asks the database without a second look.   *)
RecheckSkipped(i) ==
  /\ At(i, "recheck")
  /\ Goto(i, "database")
  /\ UNCHANGED <<geoByIP, geoGroup, told>>

Recheck(i) ==
  /\ At(i, "recheck")
  /\ IF Known(i)
     THEN probe' = [probe EXCEPT ![i].pc = "leave", ![i].answer = geoByIP[probe[i].asks]]
     ELSE Goto(i, "database")
  /\ UNCHANGED <<geoByIP, geoGroup, told>>

(* lookupIPSBGeo: a country or a failure.  What comes is remembered under  *)
(* geoMu.                                                                  *)
AskDatabase(i) ==
  /\ At(i, "database")
  /\ \E place \in Places \cup {NoPlace} :
       probe' = [probe EXCEPT ![i].pc = "remember", ![i].answer = place]
  /\ UNCHANGED <<geoByIP, geoGroup, told>>

Remember(i) ==
  /\ At(i, "remember")
  /\ geoByIP' = [e \in DOMAIN geoByIP \cup {probe[i].asks} |->
                   IF e = probe[i].asks THEN probe[i].answer ELSE geoByIP[e]]
  /\ Goto(i, "leave")
  /\ UNCHANGED <<geoGroup, told>>

Waiting(ip) == {i \in Probes : At(i, "wait") /\ probe[i].asks = ip}

(* Defective variant: those that wait are not told. *)
LeaveAlone(i) ==
  /\ At(i, "leave")
  /\ Tell({i}, probe[i].answer)
  /\ geoGroup' = [geoGroup EXCEPT ![probe[i].asks] = 0]
  /\ UNCHANGED geoByIP

(* The call is over for its owner and for all that wait for it.            *)
LeaveGroup(i) ==
  /\ At(i, "leave")
  /\ Tell({i} \cup Waiting(probe[i].asks), probe[i].answer)
  /\ geoGroup' = [geoGroup EXCEPT ![probe[i].asks] = 0]
  /\ UNCHANGED geoByIP

(***************************************************************************)
(* probeSingle between the lookups: without a direct observation the other *)
(* witnesses are asked in turn, then the WARP route is observed, the       *)
(* health endpoint is sampled, and on a reachable proxy what is missing is *)
(* asked for once more.  A context that ends between two samples takes the *)
(* countries with it; the flag of a proxy that answered a sample stays.    *)
(***************************************************************************)
Witnessed == {NoObservation} \cup {Observation(ip, place) : ip \in Exits, place \in Places}

Measure(i) ==
  /\ At(i, "measure")
  /\ \E direct \in IF Valid(probe[i].direct) THEN {probe[i].direct} ELSE Witnessed,
        warp \in Witnessed, reachable \in BOOLEAN :
       probe' = [probe EXCEPT
         ![i] = [Unstarted EXCEPT
           !.pc = IF Valid(warp) THEN "memo" ELSE "done",
           !.asks = warp.IP, !.then = "warp",
           !.direct = direct, !.warp = warp, !.reachable = reachable]]
  /\ UNCHANGED <<geoByIP, geoGroup, told>>

EndBetweenSamples(i) ==
  /\ At(i, "measure")
  /\ \E reachable \in BOOLEAN :
       probe' = [probe EXCEPT ![i] = [Unstarted EXCEPT !.pc = "done",
                                                       !.reachable = reachable]]
  /\ UNCHANGED <<geoByIP, geoGroup, told>>

ProbeStep(i) ==
  \/ StartProbe(i) \/ LookIntoMemo(i) \/ JoinGroup(i) \/ Recheck(i) \/ AskDatabase(i)
  \/ Remember(i) \/ LeaveGroup(i) \/ Measure(i) \/ EndBetweenSamples(i)

(* Pipeline.hasReachabilityWitness. *)
HasReachabilityWitness(probed) ==
  \E i \in probed : probe[i].reachable \/ Valid(probe[i].warp)
=============================================================================
