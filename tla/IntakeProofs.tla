---------------------------- MODULE IntakeProofs ----------------------------
(***************************************************************************)
(* The safety properties of Intake: what stands for a source that failed,  *)
(* that the attribution agrees with the records it is of, which hosts are  *)
(* dropped, and what the probes are told about an exit, for every number   *)
(* of sources, lines, hosts, resolvers and probes.  Sources, hosts and     *)
(* probes are different variables, so the invariant has parts for each,    *)
(* and a step of one part leaves the others alone.  The attribution is a   *)
(* function of what was merged: what is to show is that the second pass    *)
(* over the sources, which counts, comes to what the first one made of     *)
(* all lines at once.                                                      *)
(***************************************************************************)
EXTENDS Intake, FiniteSetTheorems, SequenceTheorems, TLAPS

(* A snapshot that may still be used is what the source said last; when    *)
(* there is none, the source said nothing that counts.                     *)
Entry(entry) ==
  entry = [Lines |-> entry.Lines, Age |-> entry.Age] /\ entry.Age \in Nat

Remembered(snapshot, last) ==
  /\ Entry(snapshot) /\ Entry(last)
  /\ Usable(snapshot) => last = snapshot
  /\ ~Usable(snapshot) => last.Lines = <<>>

SourcesInv ==
  /\ snapshots = [s \in SourceIds |-> snapshots[s]]
  /\ said = [s \in SourceIds |-> said[s]]
  /\ \A s \in SourceIds : Remembered(snapshots[s], said[s])
  /\ SourcesRemembered

(* While an address was found for a host, the channel holds it or the host *)
(* has its answer; and a channel closed without one has no racer left.     *)
RaceOf(h) ==
  /\ answers[h] = "unasked" =>
       asking[h] = {} /\ first[h] = "empty" /\ h \notin heard
  /\ answers[h] = "pending" /\ first[h] = "empty" => h \notin heard
  /\ answers[h] \in {"pending", "none"} /\ first[h] = "drained" =>
       asking[h] = {} /\ h \notin heard
  /\ answers[h] = "none" => first[h] = "drained"

ResolverInv ==
  /\ answers = [h \in Hosts |-> answers[h]]
  /\ asking = [h \in Hosts |-> asking[h]]
  /\ first = [h \in Hosts |-> first[h]]
  /\ \A h \in Hosts : RaceOf(h)

(* The probes between JoinGroup and LeaveGroup own the lookup of the exit  *)
(* they ask for, so that nobody else writes its entry.                     *)
Owning == {"recheck", "database", "remember", "leave"}
Asking == {"memo", "group", "wait"} \cup Owning

ProbeStates ==
  [ pc : {"none", "measure", "done"} \cup Asking, asks : Exits \cup {NoExit},
    answer : Places \cup {NoPlace}, then : {"none", "direct", "warp"},
    direct : Witnessed, warp : Witnessed, warpGeo : Places \cup {NoPlace},
    reachable : BOOLEAN ]

ProbeTyped ==
  /\ probe \in [Probes -> ProbeStates]
  /\ \A i \in Probes : probe[i].pc \in Asking => probe[i].asks \in Exits
  /\ geoGroup \in [Exits -> Probes \cup {0}]
  /\ told = [i \in Probes |-> told[i]]
  /\ geoByIP \in [DOMAIN geoByIP -> Places \cup {NoPlace}]

LookupOf(i) ==
  /\ probe[i].pc \in Owning => geoGroup[probe[i].asks] = i
  /\ probe[i].pc \in {"database", "remember"} => probe[i].asks \notin DOMAIN geoByIP
  /\ probe[i].pc = "leave" =>
       /\ probe[i].asks \in DOMAIN geoByIP
       /\ probe[i].answer = geoByIP[probe[i].asks]
  /\ \A a \in told[i] :
       a.IP \in DOMAIN geoByIP /\ a = Observation(a.IP, geoByIP[a.IP])

ProbeInv == ProbeTyped /\ \A i \in Probes : LookupOf(i)

(* What may be parsed is made of lines that are valid or not.              *)
LinesInv ==
  /\ \A s \in SourceIds : IsFeed(snapshots[s].Lines) /\ IsFeed(fetched[s].Lines)
  /\ phase = "merged" => \A s \in SourceIds : IsFeed(merged[s].Lines)

IntakeInv == SourcesInv /\ LinesInv /\ ResolverInv /\ ProbeInv

----------------------------------------------------------------------------
(* Whatever a fetch brought, the snapshot it leaves and what the source    *)
(* then last said agree, and the merge hands out the latter.               *)
LEMMA MergeRemembers ==
  ASSUME NEW snapshot, NEW last, Remembered(snapshot, last), NEW result
  PROVE  LET nsnapshot == SnapshotAfter(snapshot, result)
             nlast == IF result.Status = "ok" THEN [Lines |-> result.Lines, Age |-> 0]
                      ELSE IF result.Refused THEN NoSnapshot ELSE last
             nmerged == MergedSource(snapshot, result)
         IN  /\ Remembered(nsnapshot, nlast)
             /\ nmerged.Lines = nlast.Lines
             /\ nmerged.Stale = (result.Status # "ok" /\ nmerged.Lines # <<>>)
<1> USE MaxAgeAssumption
<1>1. CASE result.Status = "ok"
  <2> DEFINE new == [Lines |-> result.Lines, Age |-> 0]
  <2>1. SnapshotAfter(snapshot, result) = new
    BY <1>1 DEF SnapshotAfter
  <2>2. Remembered(new, new)
    BY DEF Remembered, Entry, Usable
  <2>3. /\ MergedSource(snapshot, result).Lines = result.Lines
        /\ MergedSource(snapshot, result).Stale = FALSE
    BY <1>1 DEF MergedSource, Merged
  <2>4. QED
    BY <1>1, <2>1, <2>2, <2>3
<1>2. CASE result.Status # "ok" /\ result.Refused
  BY <1>2 DEF SnapshotAfter, MergedSource, Merged, Remembered, Entry, Usable, NoSnapshot
<1>3. CASE result.Status # "ok" /\ ~result.Refused
  <2>1. CASE Usable(snapshot)
    BY <1>3, <2>1 DEF SnapshotAfter, MergedSource, Merged, Remembered, Usable
  <2>2. CASE ~Usable(snapshot)
    BY <1>3, <2>2 DEF SnapshotAfter, MergedSource, Merged, Remembered
  <2>3. QED
    BY <2>1, <2>2
<1>4. QED
  BY <1>1, <1>2, <1>3

(* A snapshot and the last answer age together, and both end at MaxAge.    *)
LEMMA AgeRemembers ==
  ASSUME NEW snapshot, NEW last, Remembered(snapshot, last)
  PROVE  Remembered(IF snapshot.Lines = <<>> THEN NoSnapshot ELSE Older(snapshot),
                    IF last.Lines = <<>> \/ last.Age = MaxAge THEN NoSnapshot
                    ELSE Older(last))
<1> USE MaxAgeAssumption
<1>1. Entry(NoSnapshot) /\ ~Usable(NoSnapshot)
  BY DEF Entry, NoSnapshot, Usable
<1>2. ASSUME NEW entry, Entry(entry)
      PROVE  /\ Entry(Older(entry)) /\ Older(entry).Lines = entry.Lines
             /\ entry.Age <= MaxAge => Older(entry).Age = entry.Age + 1
             /\ entry.Age > MaxAge => Older(entry) = entry
  <2>1. CASE entry.Age > MaxAge
    BY <1>2, <2>1 DEF Older, Entry
  <2>2. CASE ~(entry.Age > MaxAge)
    <3>1. Older(entry) = [Lines |-> entry.Lines, Age |-> entry.Age + 1]
      BY <1>2, <2>2 DEF Older, Entry
    <3>2. QED
      BY <1>2, <2>2, <3>1 DEF Entry
  <2>3. QED
    BY <2>1, <2>2
<1>3. CASE Usable(snapshot)
  BY <1>1, <1>2, <1>3 DEF Remembered, Usable, NoSnapshot, Entry
<1>4. CASE ~Usable(snapshot)
  <2>1. last.Lines = <<>> /\ NoSnapshot.Lines = <<>>
    BY <1>4 DEF Remembered, NoSnapshot
  <2>2. CASE snapshot.Lines = <<>>
    BY <1>1, <2>1, <2>2 DEF Remembered
  <2>3. CASE snapshot.Lines # <<>>
    <3>1. snapshot.Age > MaxAge /\ Entry(snapshot)
      BY <1>4, <2>3 DEF Usable, Remembered, Entry
    <3>2. Older(snapshot) = snapshot
      BY <1>2, <3>1
    <3>3. QED
      BY <1>1, <1>4, <2>1, <2>3, <3>1, <3>2 DEF Remembered
  <2>4. QED
    BY <2>2, <2>3
<1>5. QED
  BY <1>3, <1>4

(* No step lets a usable snapshot differ from what its source said last.   *)
LEMMA SourcesKept == SourcesInv /\ [Next]_vars => SourcesInv'
<1> SUFFICES ASSUME SourcesInv, [Next]_vars PROVE SourcesInv'
  OBVIOUS
<1>1. ASSUME UNCHANGED <<snapshots, said>>,
             phase' # "merged" \/ UNCHANGED <<phase, merged, fetched>>
      PROVE  SourcesInv'
  BY <1>1 DEF SourcesInv, SourcesRemembered
<1>2. CASE Merge
  <2>1. /\ snapshots' = [s \in SourceIds |-> SnapshotAfter(snapshots[s], fetched[s])]
        /\ merged' = [s \in SourceIds |-> MergedSource(snapshots[s], fetched[s])]
        /\ said' = [s \in SourceIds |->
             IF fetched[s].Status = "ok" THEN [Lines |-> fetched[s].Lines, Age |-> 0]
             ELSE IF fetched[s].Refused THEN NoSnapshot ELSE said[s]]
        /\ fetched' = fetched
    BY <1>2 DEF Merge, MergeDetailed
  <2>2. ASSUME NEW s \in SourceIds
        PROVE  /\ Remembered(snapshots'[s], said'[s])
               /\ merged'[s].Lines = said'[s].Lines
               /\ merged'[s].Stale = (fetched'[s].Status # "ok" /\ merged'[s].Lines # <<>>)
    <3>1. Remembered(snapshots[s], said[s])
      BY DEF SourcesInv
    <3>2. QED
      BY <2>1, <3>1, MergeRemembers
  <2>3. QED
    BY <2>1, <2>2 DEF SourcesInv, SourcesRemembered
<1>3. CASE TimePasses
  <2>1. /\ snapshots' = [s \in SourceIds |->
             IF snapshots[s].Lines = <<>> THEN NoSnapshot ELSE Older(snapshots[s])]
        /\ said' = [s \in SourceIds |->
             IF said[s].Lines = <<>> \/ said[s].Age = MaxAge THEN NoSnapshot
             ELSE Older(said[s])]
        /\ phase' # "merged"
    BY <1>3 DEF TimePasses, SourcesAge
  <2>2. ASSUME NEW s \in SourceIds
        PROVE  Remembered(snapshots'[s], said'[s])
    BY <2>1, AgeRemembers DEF SourcesInv
  <2>3. QED
    BY <2>1, <2>2 DEF SourcesInv, SourcesRemembered
<1>4. CASE Fetch \/ Retry
  BY <1>1, <1>4 DEF Fetch, Retry, To, FetchAllSources, RetryFailedFetchesViaPool
<1>5. CASE Parse
  BY <1>1, <1>5 DEF Parse, To, ForgetFetches
<1>6. CASE Resolve \/ StartProbing \/ GiveUp \/ ProbeRecords \/ EndProbing
  BY <1>1, <1>6 DEF Resolve, StartProbing, GiveUp, ProbeRecords, EndProbing, To, sourceVars
<1>7. CASE UNCHANGED vars
  BY <1>1, <1>7 DEF vars, sourceVars
<1>8. QED
  BY <1>2, <1>3, <1>4, <1>5, <1>6, <1>7 DEF Next, RefreshStep

----------------------------------------------------------------------------
(* The races of different hosts have nothing in common.                    *)
LEMMA OtherRaces ==
  ASSUME ResolverInv, NEW h \in Hosts,
         \A g \in Hosts \ {h} : /\ answers'[g] = answers[g] /\ asking'[g] = asking[g]
                                /\ first'[g] = first[g]
                                /\ g \in heard' <=> g \in heard,
         answers' = [g \in Hosts |-> answers'[g]],
         asking' = [g \in Hosts |-> asking'[g]],
         first' = [g \in Hosts |-> first'[g]],
         RaceOf(h)'
  PROVE  ResolverInv'
<1>1. ASSUME NEW g \in Hosts PROVE RaceOf(g)'
  BY DEF ResolverInv, RaceOf
<1>2. QED
  BY <1>1 DEF ResolverInv

(* Each step of a race keeps its relation.                                 *)
LEMMA RaceKept ==
  ASSUME ResolverInv, NEW hosts, ResolverStep(hosts)
  PROVE  ResolverInv'
<1>1. PICK h \in hosts :
        \/ StartRace(h) \/ AnswerAtOnce(h) \/ TakeFirst(h) \/ Close(h)
        \/ \E racer \in Racers : RacerFinds(h, racer) \/ RacerFails(h, racer)
  BY DEF ResolverStep
<1>2. CASE h \in Hosts
  <2>1. CASE StartRace(h)
    <3>1. RaceOf(h)'
      BY <1>2, <2>1 DEF StartRace, Answer, ResolverInv, RaceOf
    <3>2. QED
      BY <1>2, <2>1, <3>1, OtherRaces DEF StartRace, Answer, ResolverInv
  <2>2. CASE AnswerAtOnce(h)
    <3>1. RaceOf(h)'
      BY <1>2, <2>2 DEF AnswerAtOnce, Answer, ResolverInv, RaceOf
    <3>2. QED
      BY <1>2, <2>2, <3>1, OtherRaces DEF AnswerAtOnce, Answer, ResolverInv
  <2>3. CASE TakeFirst(h)
    <3>1. RaceOf(h)'
      BY <1>2, <2>3 DEF TakeFirst, Answer, ResolverInv, RaceOf
    <3>2. QED
      BY <1>2, <2>3, <3>1, OtherRaces DEF TakeFirst, Answer, ResolverInv
  <2>4. CASE Close(h)
    <3>1. RaceOf(h)'
      BY <1>2, <2>4 DEF Close, AllReturned, ResolverInv, RaceOf
    <3>2. QED
      BY <1>2, <2>4, <3>1, OtherRaces DEF Close, ResolverInv
  <2>5. ASSUME NEW racer \in Racers, RacerFinds(h, racer) \/ RacerFails(h, racer)
        PROVE  ResolverInv'
    <3>1. RaceOf(h)'
      BY <1>2, <2>5 DEF RacerFinds, RacerFails, Returns, ResolverInv, RaceOf
    <3>2. QED
      BY <1>2, <2>5, <3>1, OtherRaces DEF RacerFinds, RacerFails, Returns, ResolverInv
  <2>6. QED
    BY <1>1, <2>1, <2>2, <2>3, <2>4, <2>5
<1>3. CASE h \notin Hosts
  <2>1. /\ answers' = answers /\ asking' = asking /\ first' = first
        /\ \A g \in Hosts : g \in heard' <=> g \in heard
    BY <1>1, <1>3 DEF ResolverInv, StartRace, AnswerAtOnce, TakeFirst, Close, RacerFinds,
       RacerFails, Returns, Answer
  <2>2. QED
    BY <2>1 DEF ResolverInv, RaceOf
<1>4. QED
  BY <1>2, <1>3

(* No step of a racer, the closer or the reader loses a found address.     *)
LEMMA ResolverKept == ResolverInv /\ [Next]_vars => ResolverInv'
<1> SUFFICES ASSUME ResolverInv, [Next]_vars PROVE ResolverInv'
  OBVIOUS
<1>1. CASE Resolve
  BY <1>1, RaceKept DEF Resolve
<1>2. CASE StartProbing \/ GiveUp
  BY <1>2 DEF StartProbing, GiveUp, ForgetRaces, ResolverInv, RaceOf
<1>3. ASSUME UNCHANGED resolverVars
      PROVE  ResolverInv'
  BY <1>3 DEF resolverVars, ResolverInv, RaceOf
<1>4. CASE UNCHANGED vars
  BY <1>3, <1>4 DEF vars
<1>5. QED
  BY <1>1, <1>2, <1>3, <1>4 DEF Next, RefreshStep, Fetch, Retry, Merge, Parse,
     ProbeRecords, EndProbing, TimePasses

----------------------------------------------------------------------------
(* A step of one probe that tells nobody anything.                         *)
LEMMA OwnStep ==
  ASSUME ProbeInv, NEW i \in Probes, NEW state \in ProbeStates,
         probe' = [probe EXCEPT ![i] = state],
         UNCHANGED <<geoByIP, geoGroup, told>>,
         state.pc \in Asking => state.asks \in Exits,
         state.pc \in Owning => geoGroup[state.asks] = i,
         state.pc \in {"database", "remember"} => state.asks \notin DOMAIN geoByIP,
         state.pc = "leave" => /\ state.asks \in DOMAIN geoByIP
                               /\ state.answer = geoByIP[state.asks]
  PROVE  ProbeInv'
<1>1. /\ probe'[i] = state /\ probe' \in [Probes -> ProbeStates]
      /\ \A j \in Probes \ {i} : probe'[j] = probe[j]
  BY DEF ProbeInv, ProbeTyped
<1>2. ProbeTyped'
  BY <1>1 DEF ProbeInv, ProbeTyped
<1>3. ASSUME NEW j \in Probes PROVE LookupOf(j)'
  BY <1>1 DEF ProbeInv, LookupOf
<1>4. QED
  BY <1>2, <1>3 DEF ProbeInv

(* The exit a probe asks for belongs to one owner.                         *)
LEMMA OneOwner ==
  ASSUME ProbeInv, NEW i \in Probes, NEW j \in Probes,
         probe[i].pc \in Owning, probe[j].pc \in Owning,
         probe[i].asks = probe[j].asks
  PROVE  i = j
  BY DEF ProbeInv, LookupOf

(* What a probe becomes when it is told a country.                         *)
LEMMA WithType ==
  ASSUME NEW state \in ProbeStates, state.asks \in Exits,
         NEW place \in Places \cup {NoPlace}
  PROVE  With(state, place) \in ProbeStates /\ With(state, place).pc \in {"measure", "done"}
<1>1. CASE state.then = "direct"
  <2> DEFINE direct == IF place = NoPlace THEN NoObservation
                       ELSE Observation(state.asks, place)
  <2>1. direct \in Witnessed
    BY DEF Witnessed
  <2>2. With(state, place) = [state EXCEPT !.pc = "measure", !.answer = NoPlace,
                                           !.direct = direct]
    BY <1>1 DEF With
  <2> HIDE DEF direct
  <2>3. QED
    BY <2>1, <2>2 DEF ProbeStates
<1>2. CASE state.then # "direct"
  <2> DEFINE geo == IF place = state.warp.Country THEN place ELSE NoPlace
  <2>1. geo \in Places \cup {NoPlace}
    OBVIOUS
  <2>2. With(state, place) = [state EXCEPT !.pc = "done", !.answer = NoPlace,
                                           !.warpGeo = geo]
    BY <1>2 DEF With
  <2> HIDE DEF geo
  <2>3. QED
    BY <2>1, <2>2 DEF ProbeStates
<1>3. QED
  BY <1>1, <1>2

(* Probes that ask for an exit are told what the memo has; nobody keeps    *)
(* the group once its owner is told.                                       *)
LEMMA TellKept ==
  ASSUME ProbeInv, NEW probes \in SUBSET Probes, NEW ip \in Exits,
         ip \in DOMAIN geoByIP,
         \A i \in probes : probe[i].asks = ip,
         Tell(probes, geoByIP[ip]), UNCHANGED geoByIP,
         geoGroup' \in [Exits -> Probes \cup {0}],
         \A i \in Probes \ probes :
           probe[i].pc \in Owning => geoGroup'[probe[i].asks] = geoGroup[probe[i].asks]
  PROVE  ProbeInv'
<1>1. geoByIP[ip] \in Places \cup {NoPlace}
  BY DEF ProbeInv, ProbeTyped
<1>2. ASSUME NEW i \in probes
      PROVE  /\ probe'[i] \in ProbeStates /\ probe'[i].pc \in {"measure", "done"}
             /\ told'[i] = told[i] \cup {Observation(ip, geoByIP[ip])}
  <2>1. probe'[i] = With(probe[i], geoByIP[ip]) /\ probe[i] \in ProbeStates
    BY DEF Tell, ProbeInv, ProbeTyped
  <2>2. told'[i] = told[i] \cup {Observation(ip, geoByIP[ip])}
    BY DEF Tell
  <2>3. QED
    BY <1>1, <2>1, <2>2, WithType
<1>3. \A i \in Probes \ probes : probe'[i] = probe[i] /\ told'[i] = told[i]
  BY DEF Tell
<1>4. probe' \in [Probes -> ProbeStates]
  <2>1. \A i \in Probes : probe'[i] \in ProbeStates
    BY <1>2, <1>3 DEF ProbeInv, ProbeTyped
  <2>2. probe' = [i \in Probes |-> probe'[i]]
    BY DEF Tell
  <2>3. QED
    BY <2>1, <2>2
<1>5. ProbeTyped'
  <2>1. told' = [i \in Probes |-> told'[i]]
    BY DEF Tell
  <2>2. \A i \in Probes : probe'[i].pc \in Asking => probe'[i].asks \in Exits
    BY <1>2, <1>3 DEF ProbeInv, ProbeTyped, Asking, Owning
  <2>3. QED
    BY <1>4, <2>1, <2>2 DEF ProbeInv, ProbeTyped
<1>6. ASSUME NEW i \in probes PROVE LookupOf(i)'
  <2>1. /\ Observation(ip, geoByIP[ip]).IP = ip
        /\ \A a \in told[i] :
             a.IP \in DOMAIN geoByIP /\ a = Observation(a.IP, geoByIP[a.IP])
    BY DEF Observation, ProbeInv, LookupOf
  <2>2. \A a \in told'[i] :
          a.IP \in DOMAIN geoByIP /\ a = Observation(a.IP, geoByIP[a.IP])
    BY <1>2, <2>1
  <2>3. QED
    BY <1>2, <2>2 DEF LookupOf, Owning
<1>7. ASSUME NEW i \in Probes \ probes PROVE LookupOf(i)'
  BY <1>3 DEF ProbeInv, LookupOf
<1>8. QED
  BY <1>5, <1>6, <1>7 DEF ProbeInv

(* Each step of a probe through memo and group keeps the invariant.        *)
LEMMA ProbeStepKept ==
  ASSUME ProbeInv, NEW i \in Probes, ProbeStep(i)
  PROVE  ProbeInv'
<1> DEFINE ip == probe[i].asks
<1>0. /\ probe[i] \in ProbeStates /\ LookupOf(i)
      /\ probe[i].pc \in Asking => ip \in Exits
      /\ geoGroup \in [Exits -> Probes \cup {0}]
  BY DEF ProbeInv, ProbeTyped
<1>1. CASE StartProbe(i)
  <2>1. CASE Goto(i, "done") \/ Goto(i, "measure")
    <3>1. PICK pc \in {"done", "measure"} : probe' = [probe EXCEPT ![i] = [probe[i] EXCEPT !.pc = pc]]
      BY <2>1 DEF Goto
    <3>2. /\ [probe[i] EXCEPT !.pc = pc] \in ProbeStates
          /\ [probe[i] EXCEPT !.pc = pc].pc = pc
      BY <1>0 DEF ProbeStates
    <3>3. QED
      BY <1>1, <3>1, <3>2, OwnStep DEF StartProbe, Asking, Owning
  <2>2. CASE \E e \in Exits :
               probe' = [probe EXCEPT ![i].pc = "memo", ![i].asks = e, ![i].then = "direct"]
    <3>1. PICK e \in Exits :
            probe' = [probe EXCEPT ![i] =
                        [probe[i] EXCEPT !.pc = "memo", !.asks = e, !.then = "direct"]]
      BY <1>0, <2>2 DEF ProbeInv, ProbeTyped
    <3> DEFINE state == [probe[i] EXCEPT !.pc = "memo", !.asks = e, !.then = "direct"]
    <3>2. state \in ProbeStates /\ state.pc = "memo" /\ state.asks = e
      BY <1>0 DEF ProbeStates, Asking
    <3> HIDE DEF state
    <3>3. QED
      BY <1>1, <3>1, <3>2, OwnStep DEF StartProbe, Owning, state
  <2>3. QED
    BY <1>1, <2>1, <2>2 DEF StartProbe
<1>2. ASSUME NEW pc \in {"group", "wait", "database", "recheck"}, probe[i].pc \in Asking,
             Goto(i, pc), UNCHANGED <<geoByIP, told, geoGroup>>,
             pc \in Owning => geoGroup[ip] = i,
             pc = "database" => ip \notin DOMAIN geoByIP
      PROVE  ProbeInv'
  <2> DEFINE state == [probe[i] EXCEPT !.pc = pc]
  <2>1. probe' = [probe EXCEPT ![i] = state]
    BY <1>2 DEF Goto
  <2>2. state \in ProbeStates /\ state.pc = pc /\ state.asks = ip
    BY <1>0, <1>2 DEF ProbeStates, Asking, Owning
  <2> HIDE DEF state
  <2>3. QED
    BY <1>0, <1>2, <2>1, <2>2, OwnStep
<1>3. CASE LookIntoMemo(i)
  <2>1. probe[i].pc \in Asking /\ probe[i].pc \notin Owning /\ ip \in Exits
    BY <1>0, <1>3 DEF LookIntoMemo, At, Asking, Owning
  <2>2. CASE Known(i)
    <3>1. Tell({i}, geoByIP[ip]) /\ UNCHANGED <<geoByIP, geoGroup>> /\ ip \in DOMAIN geoByIP
      BY <1>3, <2>2 DEF LookIntoMemo, Known
    <3>2. QED
      BY <1>0, <2>1, <3>1, TellKept
  <2>3. CASE ~Known(i)
    BY <1>2, <1>3, <2>1, <2>3 DEF LookIntoMemo, Owning
  <2>4. QED
    BY <2>2, <2>3
<1>4. CASE JoinGroup(i)
  <2>1. probe[i].pc = "group" /\ probe[i].pc \in Asking /\ ip \in Exits
    BY <1>0, <1>4 DEF JoinGroup, At, Asking
  <2>2. CASE geoGroup[ip] = 0
    <3>1. /\ geoGroup' = [geoGroup EXCEPT ![ip] = i] /\ geoByIP' = geoByIP /\ told' = told
          /\ probe' = [probe EXCEPT ![i] = [probe[i] EXCEPT !.pc = "recheck"]]
      BY <1>4, <2>2 DEF JoinGroup, Goto
    <3>2. /\ probe'[i] \in ProbeStates /\ probe'[i].pc = "recheck" /\ probe'[i].asks = ip
          /\ \A j \in Probes \ {i} : probe'[j] = probe[j]
          /\ probe' \in [Probes -> ProbeStates]
      BY <1>0, <3>1 DEF ProbeInv, ProbeTyped, ProbeStates, Asking, Owning
    <3>3. /\ geoGroup'[ip] = i /\ geoGroup' \in [Exits -> Probes \cup {0}]
          /\ \A e \in Exits \ {ip} : geoGroup'[e] = geoGroup[e]
      BY <1>0, <2>1, <3>1
    <3>4. ProbeTyped'
      BY <2>1, <3>1, <3>2, <3>3 DEF ProbeInv, ProbeTyped
    <3>5. LookupOf(i)'
      BY <1>0, <3>1, <3>2, <3>3 DEF LookupOf
    <3>6. ASSUME NEW j \in Probes \ {i} PROVE LookupOf(j)'
      <4>1. LookupOf(j) /\ j # 0 /\ (probe[j].pc \in Owning => probe[j].asks \in Exits \ {ip})
        BY <2>2, PositionsAssumption DEF ProbeInv, ProbeTyped, LookupOf, Asking
      <4>2. QED
        BY <3>1, <3>2, <3>3, <4>1 DEF LookupOf
    <3>7. QED
      BY <3>4, <3>5, <3>6 DEF ProbeInv
  <2>3. CASE geoGroup[ip] # 0
    BY <1>2, <1>4, <2>1, <2>3 DEF JoinGroup, Owning
  <2>4. QED
    BY <2>2, <2>3
<1>5. CASE Recheck(i)
  <2>1. probe[i].pc = "recheck" /\ probe[i].pc \in Asking /\ ip \in Exits /\ geoGroup[ip] = i
    BY <1>0, <1>5 DEF Recheck, At, Asking, Owning, LookupOf
  <2>2. CASE Known(i)
    <3> DEFINE state == [probe[i] EXCEPT !.pc = "leave", !.answer = geoByIP[ip]]
    <3>1. /\ probe' = [probe EXCEPT ![i] = state]
          /\ UNCHANGED <<geoByIP, geoGroup, told>> /\ ip \in DOMAIN geoByIP
      BY <1>5, <2>2 DEF Recheck, Known, ProbeInv, ProbeTyped
    <3>2. geoByIP[ip] \in Places \cup {NoPlace}
      BY <3>1 DEF ProbeInv, ProbeTyped
    <3>3. /\ state \in ProbeStates /\ state.pc = "leave" /\ state.asks = ip
          /\ state.answer = geoByIP[ip]
      BY <1>0, <3>2 DEF ProbeStates, Asking, Owning
    <3> HIDE DEF state
    <3>4. QED
      BY <2>1, <3>1, <3>3, OwnStep
  <2>3. CASE ~Known(i)
    BY <1>2, <1>5, <2>1, <2>3 DEF Recheck, Known
  <2>4. QED
    BY <2>2, <2>3
<1>6. CASE AskDatabase(i)
  <2>1. /\ probe[i].pc = "database" /\ ip \in Exits /\ geoGroup[ip] = i
        /\ ip \notin DOMAIN geoByIP
    BY <1>0, <1>6 DEF AskDatabase, At, Asking, Owning, LookupOf
  <2>2. PICK place \in Places \cup {NoPlace} :
          probe' = [probe EXCEPT ![i].pc = "remember", ![i].answer = place]
    BY <1>6 DEF AskDatabase
  <2> DEFINE state == [probe[i] EXCEPT !.pc = "remember", !.answer = place]
  <2>3. probe' = [probe EXCEPT ![i] = state]
    BY <2>2 DEF ProbeInv, ProbeTyped
  <2>4. state \in ProbeStates /\ state.pc = "remember" /\ state.asks = ip
    BY <1>0 DEF ProbeStates, Asking, Owning
  <2> HIDE DEF state
  <2>5. QED
    BY <1>6, <2>1, <2>3, <2>4, OwnStep DEF AskDatabase
<1>7. CASE Remember(i)
  <2>1. /\ probe[i].pc = "remember" /\ probe[i].pc \in Owning /\ ip \in Exits
        /\ geoGroup[ip] = i /\ ip \notin DOMAIN geoByIP
    BY <1>0, <1>7 DEF Remember, At, Asking, Owning, LookupOf
  <2>2. /\ geoByIP' = [e \in DOMAIN geoByIP \cup {ip} |->
                         IF e = ip THEN probe[i].answer ELSE geoByIP[e]]
        /\ probe' = [probe EXCEPT ![i] = [probe[i] EXCEPT !.pc = "leave"]]
        /\ geoGroup' = geoGroup /\ told' = told
    BY <1>7 DEF Remember, Goto
  <2>3. /\ probe'[i].pc = "leave" /\ probe'[i].asks = ip
        /\ probe'[i].answer = probe[i].answer
        /\ probe[i].answer \in Places \cup {NoPlace}
        /\ \A j \in Probes \ {i} : probe'[j] = probe[j]
        /\ probe' \in [Probes -> ProbeStates]
    BY <1>0, <2>2 DEF ProbeInv, ProbeTyped, ProbeStates, Asking, Owning
  <2>4. /\ DOMAIN geoByIP' = DOMAIN geoByIP \cup {ip} /\ geoByIP'[ip] = probe[i].answer
        /\ \A e \in DOMAIN geoByIP : geoByIP'[e] = geoByIP[e]
    BY <2>1, <2>2
  <2>5. geoByIP' \in [DOMAIN geoByIP' -> Places \cup {NoPlace}]
    BY <2>2, <2>3 DEF ProbeInv, ProbeTyped
  <2>6. ProbeTyped'
    BY <2>1, <2>2, <2>3, <2>5 DEF ProbeInv, ProbeTyped
  <2>7. LookupOf(i)'
    BY <1>0, <2>1, <2>2, <2>3, <2>4 DEF LookupOf
  <2>8. ASSUME NEW j \in Probes \ {i} PROVE LookupOf(j)'
    <3>1. LookupOf(j) /\ (probe[j].pc \in Owning => probe[j].asks # ip)
      BY <2>1, OneOwner DEF ProbeInv
    <3>2. QED
      BY <2>2, <2>3, <2>4, <3>1 DEF LookupOf, Owning
  <2>9. QED
    BY <2>6, <2>7, <2>8 DEF ProbeInv
<1>8. CASE LeaveGroup(i)
  <2>1. /\ probe[i].pc \in Owning /\ ip \in Exits /\ ip \in DOMAIN geoByIP
        /\ probe[i].answer = geoByIP[ip]
    BY <1>0, <1>8 DEF LeaveGroup, At, Asking, Owning, LookupOf
  <2> DEFINE probes == {i} \cup Waiting(ip)
  <2>2. /\ Tell(probes, geoByIP[ip]) /\ geoByIP' = geoByIP
        /\ geoGroup' = [geoGroup EXCEPT ![ip] = 0]
    BY <1>8, <2>1 DEF LeaveGroup
  <2>3. probes \in SUBSET Probes /\ \A j \in probes : probe[j].asks = ip
    BY DEF Waiting
  <2>4. geoGroup' \in [Exits -> Probes \cup {0}]
    BY <1>0, <2>2
  <2>5. ASSUME NEW j \in Probes \ probes, probe[j].pc \in Owning
        PROVE  geoGroup'[probe[j].asks] = geoGroup[probe[j].asks]
    <3>1. probe[j].asks # ip /\ probe[j].asks \in Exits
      BY <2>1, <2>5, OneOwner DEF ProbeInv, ProbeTyped, Asking
    <3>2. QED
      BY <1>0, <2>2, <3>1
  <2> HIDE DEF probes
  <2>6. QED
    BY <2>1, <2>2, <2>3, <2>4, <2>5, TellKept
<1>9. CASE Measure(i) \/ EndBetweenSamples(i)
  <2>1. /\ UNCHANGED <<geoByIP, geoGroup, told>>
        /\ \E state \in ProbeStates :
             /\ probe' = [probe EXCEPT ![i] = state]
             /\ (state.pc = "memo" /\ state.asks \in Exits) \/ state.pc = "done"
    <3>1. CASE Measure(i)
      <4>1. PICK direct \in IF Valid(probe[i].direct) THEN {probe[i].direct} ELSE Witnessed,
                 warp \in Witnessed, reachable \in BOOLEAN :
              probe' = [probe EXCEPT
                ![i] = [Unstarted EXCEPT
                  !.pc = IF Valid(warp) THEN "memo" ELSE "done",
                  !.asks = warp.IP, !.then = "warp",
                  !.direct = direct, !.warp = warp, !.reachable = reachable]]
        BY <3>1 DEF Measure
      <4> DEFINE pc == IF Valid(warp) THEN "memo" ELSE "done"
                 state == [Unstarted EXCEPT
                  !.pc = pc, !.asks = warp.IP, !.then = "warp",
                  !.direct = direct, !.warp = warp, !.reachable = reachable]
      <4>2. direct \in Witnessed
        BY <1>0 DEF ProbeStates
      <4>3. /\ warp.IP \in Exits \cup {NoExit}
            /\ Valid(warp) => warp.IP \in Exits
        BY DEF Witnessed, Valid, NoObservation, Observation
      <4>4. pc \in {"memo", "done"} /\ (pc = "memo" => warp.IP \in Exits)
        BY <4>3
      <4> HIDE DEF pc
      <4>5. state \in ProbeStates /\ state.pc = pc /\ state.asks = warp.IP
        BY <4>2, <4>3, <4>4 DEF Unstarted, ProbeStates, Asking
      <4>6. probe' = [probe EXCEPT ![i] = state]
        BY <4>1 DEF pc
      <4> HIDE DEF state
      <4>7. QED
        BY <3>1, <4>4, <4>5, <4>6 DEF Measure
    <3>2. CASE EndBetweenSamples(i)
      <4>1. PICK reachable \in BOOLEAN :
              probe' = [probe EXCEPT ![i] = [Unstarted EXCEPT !.pc = "done",
                                                              !.reachable = reachable]]
        BY <3>2 DEF EndBetweenSamples
      <4> DEFINE state == [Unstarted EXCEPT !.pc = "done", !.reachable = reachable]
      <4>2. NoObservation \in Witnessed
        BY DEF Witnessed
      <4>3. state \in ProbeStates /\ state.pc = "done"
        BY <4>2 DEF Unstarted, ProbeStates
      <4> HIDE DEF state
      <4>4. probe' = [probe EXCEPT ![i] = state]
        BY <4>1 DEF state
      <4>5. QED
        BY <3>2, <4>3, <4>4 DEF EndBetweenSamples
    <3>3. QED
      BY <1>9, <3>1, <3>2
  <2>2. PICK state \in ProbeStates :
          /\ probe' = [probe EXCEPT ![i] = state]
          /\ (state.pc = "memo" /\ state.asks \in Exits) \/ state.pc = "done"
    BY <2>1
  <2>3. /\ state.pc \notin Owning
        /\ state.pc \in Asking => state.asks \in Exits
    BY <2>2 DEF Asking, Owning
  <2>4. QED
    BY <2>1, <2>2, <2>3, OwnStep DEF Owning
<1>10. QED
  BY <1>1, <1>3, <1>4, <1>5, <1>6, <1>7, <1>8, <1>9 DEF ProbeStep

(* A prober that just started.                                             *)
LEMMA UnstartedType == Unstarted \in ProbeStates /\ Unstarted.pc = "none"
<1>1. NoObservation \in Witnessed
  BY DEF Witnessed
<1>2. QED
  BY <1>1 DEF Unstarted, ProbeStates

(* A refresh that has yet to probe has nothing to agree about.             *)
LEMMA ProbesForgotten ==
  ASSUME probe' = [i \in Probes |-> Unstarted], told' = [i \in Probes |-> {}],
         geoGroup' = [e \in Exits |-> 0], geoByIP' = [e \in {} |-> NoPlace]
  PROVE  ProbeInv'
  BY UnstartedType DEF ProbeInv, ProbeTyped, LookupOf, Asking, Owning

(* Every step of a refresh keeps what its probes agree about.              *)
LEMMA ProbeKept == ProbeInv /\ [Next]_vars => ProbeInv'
<1> SUFFICES ASSUME ProbeInv, [Next]_vars PROVE ProbeInv'
  OBVIOUS
<1>1. CASE ProbeRecords
  BY <1>1, ProbeStepKept DEF ProbeRecords
<1>2. CASE EndProbing
  <2>1. /\ probe' = [i \in Probes |-> Unstarted] /\ told' = [i \in Probes |-> {}]
        /\ geoGroup' = [e \in Exits |-> 0] /\ geoByIP' = [e \in {} |-> NoPlace]
    BY <1>2 DEF EndProbing, ForgetProber
  <2>2. QED
    BY <2>1, ProbesForgotten
<1>3. ASSUME UNCHANGED probeVars
      PROVE  ProbeInv'
  BY <1>3 DEF probeVars, ProbeInv, ProbeTyped, LookupOf
<1>4. CASE UNCHANGED vars
  BY <1>3, <1>4 DEF vars
<1>5. QED
  BY <1>1, <1>2, <1>3, <1>4 DEF Next, RefreshStep, Fetch, Retry, Merge, Parse,
     Resolve, StartProbing, GiveUp, TimePasses

----------------------------------------------------------------------------
(* Numbers that are not none have a least.                                 *)
LEMMA LeastExists ==
  ASSUME NEW S \in SUBSET Nat, S # {}
  PROVE  \E x \in S : \A y \in S : x <= y
<1> DEFINE less == OpToRel(<, Nat)
<1>1. IsWellFoundedOn(less, Nat)
  <2> HIDE DEF less
  <2>1. QED
    BY NatLessThanWellFounded DEF less
<1>2. \A m, n \in Nat : m < n => <<m, n>> \in less
  BY DEF OpToRel
<1> HIDE DEF less
<1>3. PICK x \in S : \A y \in S : <<y, x>> \notin less
  BY <1>1, WFMin
<1>4. ASSUME NEW y \in S
      PROVE  x <= y
  <2>1. x \in Nat /\ y \in Nat
    OBVIOUS
  <2>2. ~ (y < x)
    BY <1>2, <1>3, <2>1
  <2>3. QED
    BY <2>1, <2>2
<1>5. QED
  BY <1>4

(* A set of numbers below a bound has a largest.                           *)
LEMMA LargestExists ==
  ASSUME NEW n \in Nat, NEW S \in SUBSET (1 .. n), S # {}
  PROVE  \E x \in S : \A y \in S : y <= x
<1> DEFINE T == {n - x : x \in S}
<1>1. T \in SUBSET Nat /\ T # {}
  <2>1. \A x \in S : n - x \in Nat
    OBVIOUS
  <2>2. T \subseteq Nat
    BY <2>1
  <2>3. QED
    BY <2>2
<1>2. PICK t \in T : \A u \in T : t <= u
  <2> HIDE DEF T
  <2>1. QED
    BY <1>1, LeastExists
<1>3. PICK x \in S : t = n - x
  OBVIOUS
<1>4. \A y \in S : n - x <= n - y
  BY <1>2, <1>3
<1>5. QED
  BY <1>4

(* Induction, for a set of numbers.                                        *)
LEMMA Induction ==
  ASSUME NEW S, 0 \in S, \A n \in Nat : n \in S => n + 1 \in S
  PROVE  Nat \subseteq S
<1>1. SUFFICES ASSUME Nat \ S # {} PROVE FALSE
  OBVIOUS
<1>2. PICK n \in Nat \ S : \A m \in Nat \ S : n <= m
  BY <1>1, LeastExists
<1>3. n - 1 \in Nat /\ n - 1 \notin Nat \ S
  BY <1>2
<1>4. QED
  BY <1>2, <1>3

(* Every number up to the size of a set of positions is the rank of one.   *)
LEMMA RanksCount ==
  ASSUME NEW n \in Nat, NEW positions \in SUBSET (1 .. n)
  PROVE  /\ IsFiniteSet(positions) /\ Cardinality(positions) \in Nat
         /\ \A i \in positions :
              Cardinality({j \in positions : j <= i}) \in 1 .. Cardinality(positions)
         /\ \A i, k \in positions :
              Cardinality({j \in positions : j <= i}) = Cardinality({j \in positions : j <= k})
                => i = k
         /\ \A k \in 1 .. Cardinality(positions) : \E i \in positions :
              Cardinality({j \in positions : j <= i}) = k
<1> DEFINE S == positions
           size == Cardinality(S)
           upTo(i) == {j \in S : j <= i}
<1>1. IsFiniteSet(1 .. n)
  BY FS_Interval
<1>2. IsFiniteSet(S) /\ size \in Nat
  BY <1>1, FS_Subset, FS_CardinalityType
<1>3. ASSUME NEW i \in S
      PROVE  IsFiniteSet(upTo(i)) /\ Cardinality(upTo(i)) \in 1 .. size
  <2>1. IsFiniteSet(upTo(i)) /\ Cardinality(upTo(i)) <= size
    BY <1>2, FS_Subset
  <2>2. i \in upTo(i)
    OBVIOUS
  <2>3. Cardinality(upTo(i)) # 0 /\ Cardinality(upTo(i)) \in Nat
    BY <2>1, <2>2, FS_EmptySet, FS_CardinalityType
  <2> HIDE DEF upTo
  <2>4. QED
    BY <1>2, <2>1, <2>3
<1>4. ASSUME NEW i \in S, NEW k \in S, i < k
      PROVE  Cardinality(upTo(i)) # Cardinality(upTo(k))
  <2>1. k \in upTo(k) /\ k \notin upTo(i)
    BY <1>4
  <2>2. upTo(i) \in SUBSET upTo(k)
    <3>1. i \in Int /\ k \in Int /\ \A j \in S : j \in Int
      OBVIOUS
    <3>2. \A j \in upTo(i) : j \in upTo(k)
      BY <1>4, <3>1
    <3>3. QED
      BY <3>2
  <2> HIDE DEF upTo
  <2>3. QED
    BY <1>3, <2>1, <2>2, FS_Subset
<1> DEFINE rank == [i \in S |-> Cardinality(upTo(i))]
<1> HIDE DEF upTo, size
<1>5. \A i, k \in S : Cardinality(upTo(i)) = Cardinality(upTo(k)) => i = k
  <2>1. \A i, k \in S : i < k \/ k < i \/ i = k
    OBVIOUS
  <2>2. QED
    BY <1>4, <2>1
<1>6. rank \in Injection(S, 1 .. size)
  BY <1>2, <1>3, <1>5 DEF Injection, IsInjective
<1>7. IsFiniteSet(1 .. size) /\ Cardinality(1 .. size) = size
  BY <1>2, FS_Interval
<1>8. rank \in Surjection(S, 1 .. size)
  BY <1>2, <1>6, <1>7, FS_Injection DEF size
<1>9. \A k \in 1 .. size : \E i \in S : Cardinality(upTo(i)) = k
  BY <1>8 DEF Surjection
<1>10. QED
  BY <1>2, <1>3, <1>5, <1>9 DEF upTo, size

(* Kept has what is at the positions, as often as there are positions.     *)
LEMMA KeptAre ==
  ASSUME NEW seq, NEW n \in Nat, NEW positions \in SUBSET (1 .. n)
  PROVE  /\ Len(Kept(seq, positions)) = Cardinality(positions)
         /\ DOMAIN Kept(seq, positions) = 1 .. Cardinality(positions)
         /\ ToSet(Kept(seq, positions)) = {seq[i] : i \in positions}
<1> DEFINE size == Cardinality(positions)
           rank(i) == Cardinality({j \in positions : j <= i})
           at(k) == CHOOSE i \in positions : rank(i) = k
           kept == Kept(seq, positions)
<1>1. /\ size \in Nat
      /\ \A i \in positions : rank(i) \in 1 .. size
      /\ \A i, k \in positions : rank(i) = rank(k) => i = k
      /\ \A k \in 1 .. size : \E i \in positions : rank(i) = k
  BY RanksCount
<1>2. kept = [k \in 1 .. size |-> seq[at(k)]]
  BY Zenon DEF Kept
<1> HIDE DEF size, rank, kept
<1>3. \A k \in 1 .. size : at(k) \in positions /\ rank(at(k)) = k
  <2>1. ASSUME NEW k, \E i \in positions : rank(i) = k
        PROVE  at(k) \in positions /\ rank(at(k)) = k
    BY <2>1, Zenon
  <2>2. QED
    BY <1>1, <2>1
<1>4. \A i \in positions : at(rank(i)) = i
  BY <1>1, <1>3
<1> HIDE DEF at
<1>5. DOMAIN kept = 1 .. size /\ Len(kept) = size
  BY <1>1, <1>2
<1>6. ToSet(kept) = {seq[i] : i \in positions}
  <2>1. ASSUME NEW x \in ToSet(kept)
        PROVE  x \in {seq[i] : i \in positions}
    BY <1>2, <1>3, <1>5 DEF ToSet
  <2>2. ASSUME NEW i \in positions
        PROVE  seq[i] \in ToSet(kept)
    <3>1. rank(i) \in 1 .. size /\ kept[rank(i)] = seq[i]
      BY <1>1, <1>2, <1>4
    <3>2. QED
      BY <1>5, <3>1 DEF ToSet
  <2>3. QED
    BY <2>1, <2>2
<1>7. QED
  BY <1>5, <1>6 DEF kept, size
(***************************************************************************)
(* The lines of a source.                                                  *)
(***************************************************************************)
ValidKeys(lines) == {line.Key : line \in {l \in ToSet(lines) : l.Valid}}

(* The lines that ParseAllLines makes records of. *)
FirstOnes(lines) == {lines[i] : i \in Firsts(lines)}

(* Every key of a feed has one first line, so that there are as many       *)
(* records as keys.                                                        *)
LEMMA FirstsAre ==
  ASSUME NEW lines, IsFeed(lines)
  PROVE  /\ Len(lines) \in Nat /\ Firsts(lines) \in SUBSET (1 .. Len(lines))
         /\ {line.Key : line \in FirstOnes(lines)} = ValidKeys(lines)
         /\ IsFiniteSet(ValidKeys(lines))
         /\ Cardinality(Firsts(lines)) = Cardinality(ValidKeys(lines))
<1> DEFINE n == Len(lines)
           F == Firsts(lines)
           K == ValidKeys(lines)
           key == [i \in F |-> lines[i].Key]
<1>1. /\ n \in Nat /\ DOMAIN lines = 1 .. n
      /\ \A i \in 1 .. n : lines[i] \in ToSet(lines)
  BY DEF IsFeed, ToSet
<1>2. F \in SUBSET (1 .. n)
  BY <1>1 DEF Firsts
<1>3. ASSUME NEW i \in F
      PROVE  lines[i].Key \in K
  BY <1>1 DEF Firsts, ValidKeys
<1>4. ASSUME NEW k \in K
      PROVE  \E i \in F : lines[i].Key = k
  <2> DEFINE at == {i \in 1 .. n : lines[i].Valid /\ lines[i].Key = k}
  <2>1. at \in SUBSET Nat /\ at # {}
    BY <1>1 DEF ValidKeys, ToSet
  <2>2. PICK i \in at : \A j \in at : i <= j
    <3> HIDE DEF at
    <3>1. QED
      BY <2>1, LeastExists
  <2>3. ASSUME NEW j \in 1 .. i - 1, lines[j].Valid
        PROVE  lines[j].Key # lines[i].Key
    <3>1. i \in 1 .. n /\ j \in 1 .. n /\ j < i
      BY <1>1, <2>2
    <3>2. j \notin at
      BY <2>2, <3>1
    <3>3. QED
      BY <2>2, <2>3, <3>1, <3>2
  <2>4. QED
    BY <1>1, <2>2, <2>3 DEF Firsts
<1>5. ASSUME NEW i \in F, NEW j \in F, lines[i].Key = lines[j].Key
      PROVE  i = j
  <2>1. i \in 1 .. n /\ j \in 1 .. n /\ lines[i].Valid /\ lines[j].Valid
    BY <1>1 DEF Firsts
  <2>2. ~ (i < j) /\ ~ (j < i)
    BY <1>5, <2>1 DEF Firsts
  <2>3. QED
    BY <2>1, <2>2
<1>6. IsFiniteSet(F)
  BY <1>1, <1>2, RanksCount
<1> HIDE DEF F, K
<1>7. key \in Surjection(F, K) /\ key \in Injection(F, K)
  BY <1>3, <1>4, <1>5 DEF Surjection, Injection, IsInjective
<1>8. IsFiniteSet(K) /\ Cardinality(F) = Cardinality(K)
  BY <1>6, <1>7, FS_Surjection
<1>9. {line.Key : line \in FirstOnes(lines)} = K
  BY <1>3, <1>4 DEF FirstOnes, F
<1>10. QED
  BY <1>1, <1>2, <1>8, <1>9 DEF F, K

(* The records that ParseAllLines makes.                                   *)
LEMMA ParsedAre ==
  ASSUME NEW lines, IsFeed(lines)
  PROVE  LET made_ == ParseAllLines(lines).Records
         IN  /\ ToSet(made_) = FirstOnes(lines)
             /\ KeysOf(made_) = ValidKeys(lines)
             /\ Len(made_) = Cardinality(ValidKeys(lines))
<1> DEFINE made == Kept(lines, Firsts(lines))
<1>1. ParseAllLines(lines).Records = made
  BY DEF ParseAllLines
<1>2. ToSet(made) = FirstOnes(lines) /\ Len(made) = Cardinality(ValidKeys(lines))
  BY FirstsAre, KeptAre DEF FirstOnes
<1>3. KeysOf(made) = {line.Key : line \in ToSet(made)}
  BY DEF KeysOf, ToSet
<1> HIDE DEF made
<1>4. QED
  BY <1>1, <1>2, <1>3, FirstsAre
(* A place in two sequences one after the other is in one of them.         *)
LEMMA InOneOfTwo ==
  ASSUME NEW n \in Nat, NEW m \in Nat, NEW i \in 1 .. n + m
  PROVE  i \in 1 .. n \/ \E k \in 1 .. m : i = n + k
<1>1. CASE i > n
  <2>1. i - n \in 1 .. m /\ i = n + (i - n)
    BY <1>1
  <2>2. QED
    BY <2>1
<1>2. CASE i <= n
  BY <1>2
<1>3. QED
  BY <1>1, <1>2

(* A feed after another: a line of the second is the first of its key      *)
(* unless the first one has the key.                                       *)
LEMMA ConcatIs ==
  ASSUME NEW a, IsFeed(a), NEW b, IsFeed(b)
  PROVE  /\ IsFeed(a \o b)
         /\ ValidKeys(a \o b) = ValidKeys(a) \cup ValidKeys(b)
         /\ FirstOnes(a \o b) =
              FirstOnes(a) \cup {line \in FirstOnes(b) : line.Key \notin ValidKeys(a)}
<1> DEFINE n == Len(a)
           m == Len(b)
           c == a \o b
           lines == ToSet(a) \cup ToSet(b)
<1>1. /\ n \in Nat /\ DOMAIN a = 1 .. n
      /\ m \in Nat /\ DOMAIN b = 1 .. m
      /\ \A i \in 1 .. n : a[i] \in ToSet(a)
      /\ \A i \in 1 .. m : b[i] \in ToSet(b)
  BY DEF IsFeed, ToSet
<1>2. a \in Seq(lines) /\ b \in Seq(lines)
  <2>1. /\ a \in Seq(ToSet(a)) /\ \A i \in 1 .. n : a[i] \in lines
        /\ b \in Seq(ToSet(b)) /\ \A i \in 1 .. m : b[i] \in lines
    BY <1>1 DEF IsFeed
  <2> HIDE DEF lines
  <2>2. QED
    BY <2>1
<1>3. /\ c \in Seq(lines) /\ Len(c) = n + m
      /\ \A i \in 1 .. n : c[i] = a[i]
      /\ \A i \in 1 .. m : c[n + i] = b[i]
  <2> HIDE DEF lines
  <2>1. QED
    BY <1>2
<1>4. /\ DOMAIN c = 1 .. n + m
      /\ \A i \in 1 .. n + m : i \in 1 .. n \/ \E k \in 1 .. m : i = n + k
  <2>1. \A i \in 1 .. n + m : i \in 1 .. n \/ \E k \in 1 .. m : i = n + k
    BY <1>1, InOneOfTwo
  <2>2. QED
    BY <1>1, <1>3, <2>1
<1> HIDE DEF c
<1>5. ToSet(c) = lines
  <2>1. ASSUME NEW x \in ToSet(c)
        PROVE  x \in lines
    <3>1. PICK i \in 1 .. n + m : x = c[i]
      BY <1>4 DEF ToSet
    <3>2. CASE i \in 1 .. n
      BY <1>1, <1>3, <3>1, <3>2
    <3>3. CASE \E k \in 1 .. m : i = n + k
      BY <1>1, <1>3, <3>1, <3>3
    <3>4. QED
      BY <1>4, <3>2, <3>3
  <2>2. ASSUME NEW i \in 1 .. n
        PROVE  a[i] \in ToSet(c)
    BY <1>1, <1>3, <1>4 DEF ToSet
  <2>3. ASSUME NEW i \in 1 .. m
        PROVE  b[i] \in ToSet(c)
    <3>1. n + i \in 1 .. n + m
      BY <1>1
    <3>2. QED
      BY <1>3, <1>4, <3>1 DEF ToSet
  <2>4. \A x \in lines : x \in ToSet(c)
    BY <1>1, <2>2, <2>3 DEF ToSet
  <2>5. QED
    BY <2>1, <2>4
<1>6. IsFeed(c)
  BY <1>3, <1>5 DEF IsFeed
<1>7. ValidKeys(c) = ValidKeys(a) \cup ValidKeys(b)
  BY <1>5 DEF ValidKeys
<1>8. ASSUME NEW i \in 1 .. n
      PROVE  i \in Firsts(c) <=> i \in Firsts(a)
  <2>1. \A j \in 1 .. i - 1 : c[j] = a[j]
    BY <1>1, <1>3
  <2>2. c[i] = a[i] /\ i \in 1 .. n + m
    BY <1>1, <1>3
  <2>3. QED
    BY <1>1, <1>4, <2>1, <2>2 DEF Firsts
<1>9. ASSUME NEW k \in 1 .. m
      PROVE  n + k \in Firsts(c) <=> k \in Firsts(b) /\ b[k].Key \notin ValidKeys(a)
  <2>1. n + k \in 1 .. n + m /\ c[n + k] = b[k]
    BY <1>1, <1>3
  <2> DEFINE other(line) == line.Valid => line.Key # b[k].Key
  <2>2. (\A j \in 1 .. (n + k) - 1 : other(c[j])) <=>
          (\A j \in 1 .. n : other(a[j])) /\ (\A j \in 1 .. k - 1 : other(b[j]))
    <3>1. /\ \A j \in 1 .. n : j \in 1 .. (n + k) - 1 /\ c[j] = a[j]
          /\ \A j \in 1 .. k - 1 : n + j \in 1 .. (n + k) - 1 /\ c[n + j] = b[j]
      BY <1>1, <1>3
    <3>2. \A j \in 1 .. (n + k) - 1 : j \in 1 .. n \/ \E l \in 1 .. k - 1 : j = n + l
      <4>1. k - 1 \in Nat /\ (n + k) - 1 = n + (k - 1)
        BY <1>1
      <4>2. QED
        BY <1>1, <4>1, InOneOfTwo
    <3> HIDE DEF other
    <3>3. QED
      BY <3>1, <3>2
  <2>3. (\A j \in 1 .. n : other(a[j])) <=> b[k].Key \notin ValidKeys(a)
    BY <1>1 DEF ValidKeys, ToSet
  <2>4. QED
    BY <1>1, <1>4, <2>1, <2>2, <2>3 DEF Firsts
<1>10. FirstOnes(c) =
         FirstOnes(a) \cup {line \in FirstOnes(b) : line.Key \notin ValidKeys(a)}
  <2> DEFINE new == {line \in FirstOnes(b) : line.Key \notin ValidKeys(a)}
  <2>1. /\ Firsts(a) \in SUBSET (1 .. n) /\ Firsts(b) \in SUBSET (1 .. m)
        /\ Firsts(c) \in SUBSET (1 .. n + m)
    BY <1>1, <1>4 DEF Firsts
  <2>2. ASSUME NEW i \in Firsts(c)
        PROVE  c[i] \in FirstOnes(a) \cup new
    <3>1. CASE i \in 1 .. n
      BY <1>3, <1>8, <3>1 DEF FirstOnes
    <3>2. CASE \E k \in 1 .. m : i = n + k
      BY <1>3, <1>9, <3>2 DEF FirstOnes
    <3>3. QED
      BY <1>4, <2>1, <3>1, <3>2
  <2>3. ASSUME NEW i \in Firsts(a)
        PROVE  a[i] \in FirstOnes(c)
    BY <1>3, <1>8, <2>1 DEF FirstOnes
  <2>4. ASSUME NEW k \in Firsts(b), b[k].Key \notin ValidKeys(a)
        PROVE  b[k] \in FirstOnes(c)
    BY <1>3, <1>9, <2>1, <2>4 DEF FirstOnes
  <2>5. \A x \in FirstOnes(c) : x \in FirstOnes(a) \cup new
    BY <2>2 DEF FirstOnes
  <2>6. \A x \in FirstOnes(a) \cup new : x \in FirstOnes(c)
    BY <2>3, <2>4 DEF FirstOnes
  <2>7. QED
    BY <2>5, <2>6
<1>11. QED
  BY <1>6, <1>7, <1>10 DEF c
(***************************************************************************)
(* The lines of all sources, one source after another.                     *)
(***************************************************************************)
(* f[i] is what the first i sequences make, for the first k of them. *)
Flat(seqs, k, f) ==
  f = [i \in 1 .. k |-> IF i = 1 THEN seqs[i] ELSE f[i - 1] \o seqs[i]]

(* There is such a function, for any number of sequences.                  *)
LEMMA FlatExists ==
  ASSUME NEW seqs, NEW n \in Nat
  PROVE  \E f : Flat(seqs, n + 1, f)
<1> DEFINE S == {k \in Nat : \E f : Flat(seqs, k + 1, f)}
<1>1. 0 \in S
  <2> DEFINE f == [i \in 1 .. 1 |-> seqs[1]]
  <2>1. Flat(seqs, 1, f)
    BY DEF Flat
  <2>2. \E g : Flat(seqs, 1, g)
    BY <2>1
  <2>3. QED
    BY <2>2
<1>2. ASSUME NEW k \in Nat, k \in S
      PROVE  k + 1 \in S
  <2>1. PICK f : Flat(seqs, k + 1, f)
    BY <1>2
  <2> DEFINE g == [i \in 1 .. k + 2 |->
                     IF i = k + 2 THEN f[k + 1] \o seqs[k + 2] ELSE f[i]]
             h == [i \in 1 .. k + 2 |-> IF i = 1 THEN seqs[i] ELSE g[i - 1] \o seqs[i]]
  <2>2. ASSUME NEW i \in 1 .. k + 2
        PROVE  g[i] = h[i]
    <3>1. CASE i = k + 2
      <4>1. i - 1 = k + 1 /\ i - 1 \in 1 .. k + 2 /\ i - 1 # k + 2 /\ i # 1
        BY <3>1
      <4>2. g[i - 1] = f[k + 1] /\ g[i] = f[k + 1] \o seqs[i]
        BY <3>1, <4>1
      <4> HIDE DEF g
      <4>3. QED
        BY <4>1, <4>2
    <3>2. CASE i # k + 2
      <4>1. i \in 1 .. k + 1 /\ (i # 1 => i - 1 \in 1 .. k + 1)
        BY <3>2
      <4>2. f[i] = IF i = 1 THEN seqs[i] ELSE f[i - 1] \o seqs[i]
        BY <2>1, <4>1 DEF Flat
      <4>3. g[i] = f[i] /\ (i # 1 => g[i - 1] = f[i - 1])
        BY <3>2, <4>1
      <4> HIDE DEF g
      <4>4. QED
        BY <4>2, <4>3
    <3>3. QED
      BY <3>1, <3>2
  <2>3. g = h
    BY <2>2
  <2>4. k + 1 + 1 = k + 2
    OBVIOUS
  <2>5. Flat(seqs, k + 1 + 1, g)
    <3> HIDE DEF g
    <3>1. QED
      BY <2>3, <2>4 DEF Flat
  <2>6. QED
    BY <2>5
<1> HIDE DEF S
<1>3. Nat \subseteq S
  BY <1>1, <1>2, Induction
<1>4. QED
  BY <1>3 DEF S

(* FlattenSeq is where it ends.                                            *)
LEMMA FlattenIs ==
  ASSUME NEW n \in Nat \ {0}, NEW seqs, seqs = [i \in 1 .. n |-> seqs[i]]
  PROVE  \E f : Flat(seqs, n, f) /\ FlattenSeq(seqs) = f[n]
<1>1. Len(seqs) = n /\ n # 0
  OBVIOUS
<1>2. \E f : Flat(seqs, n, f)
  <2>1. n - 1 \in Nat /\ n - 1 + 1 = n
    OBVIOUS
  <2>2. QED
    BY <2>1, FlatExists
<1> DEFINE chosen == CHOOSE f : Flat(seqs, n, f)
<1>3. Flat(seqs, n, chosen)
  BY <1>2, Zenon
<1>4. FlattenSeq(seqs) = chosen[n]
  BY <1>1, Zenon DEF FlattenSeq, Flat
<1>5. QED
  BY <1>3, <1>4
(* The keys of the first k sources. *)
KeysUpTo(sources, k) == UNION {ValidKeys(sources[s].Lines) : s \in 1 .. k}

(* The lines of the first k sources: a first line is one of a source that  *)
(* has its key before the others.                                          *)
AreOf(sources, k, lines) ==
  /\ IsFeed(lines)
  /\ ValidKeys(lines) = KeysUpTo(sources, k)
  /\ \A line \in FirstOnes(lines) : \E s \in 1 .. k :
       line \in FirstOnes(sources[s].Lines) /\ line.Key \notin KeysUpTo(sources, s - 1)

(* AllLines is that for all sources: one more source adds its keys and the *)
(* lines whose keys are not there yet.                                     *)
LEMMA AllLinesAre ==
  ASSUME NEW sources, \A s \in SourceIds : IsFeed(sources[s].Lines)
  PROVE  AreOf(sources, SourceCount, AllLines(sources))
<1> DEFINE seqs == [s \in SourceIds |-> sources[s].Lines]
<1>1. PICK f : Flat(seqs, SourceCount, f) /\ FlattenSeq(seqs) = f[SourceCount]
  <2>1. seqs = [s \in 1 .. SourceCount |-> seqs[s]]
    BY DEF SourceIds
  <2> HIDE DEF seqs
  <2>2. QED
    BY <2>1, SourceCountAssumption, FlattenIs
<1> DEFINE S == {k \in Nat : k + 1 <= SourceCount => AreOf(sources, k + 1, f[k + 1])}
<1>2. 0 \in S
  <2>1. 1 \in SourceIds /\ 1 \in 1 .. SourceCount
    BY SourceCountAssumption DEF SourceIds
  <2>2. f[1] = sources[1].Lines
    BY <1>1, <2>1 DEF Flat
  <2>3. KeysUpTo(sources, 1) = ValidKeys(f[1]) /\ KeysUpTo(sources, 0) = {}
    BY <2>2 DEF KeysUpTo
  <2>4. AreOf(sources, 1, f[1])
    <3>1. \A line \in FirstOnes(f[1]) : 1 \in 1 .. 1 /\ line \in FirstOnes(sources[1].Lines)
                                        /\ line.Key \notin KeysUpTo(sources, 1 - 1)
      BY <2>2, <2>3
    <3>2. IsFeed(f[1])
      BY <2>1, <2>2
    <3>3. QED
      BY <2>3, <3>1, <3>2 DEF AreOf
  <2>5. QED
    BY <2>4
<1>3. ASSUME NEW k \in Nat, k \in S
      PROVE  k + 1 \in S
  <2>1. SUFFICES ASSUME k + 2 <= SourceCount
                 PROVE  AreOf(sources, k + 2, f[k + 2])
    OBVIOUS
  <2> DEFINE a == f[k + 1]
             b == sources[k + 2].Lines
  <2>2. /\ k + 2 \in SourceIds /\ k + 2 \in 1 .. SourceCount /\ k + 2 # 1
        /\ (k + 2) - 1 = k + 1 /\ k + 1 <= SourceCount
    BY <2>1, SourceCountAssumption DEF SourceIds
  <2>3. f[k + 2] = a \o b
    <3>1. f[k + 2] = f[(k + 2) - 1] \o seqs[k + 2]
      <4> HIDE DEF seqs
      <4>1. \A i \in 1 .. SourceCount :
              f[i] = IF i = 1 THEN seqs[i] ELSE f[i - 1] \o seqs[i]
        BY <1>1 DEF Flat
      <4> DEFINE i == k + 2
      <4>2. i \in 1 .. SourceCount /\ i # 1
        BY <2>2
      <4> HIDE DEF i
      <4>3. f[i] = f[i - 1] \o seqs[i]
        BY <4>1, <4>2
      <4>4. QED
        BY <4>3 DEF i
    <3>2. QED
      BY <2>2, <3>1
  <2>4. AreOf(sources, k + 1, a) /\ IsFeed(b)
    BY <1>3, <2>2
  <2> HIDE DEF a, b
  <2>5. /\ IsFeed(f[k + 2])
        /\ ValidKeys(f[k + 2]) = ValidKeys(a) \cup ValidKeys(b)
        /\ FirstOnes(f[k + 2]) =
             FirstOnes(a) \cup {line \in FirstOnes(b) : line.Key \notin ValidKeys(a)}
    BY <2>3, <2>4, ConcatIs DEF AreOf
  <2>6. KeysUpTo(sources, k + 2) = KeysUpTo(sources, k + 1) \cup ValidKeys(b)
    <3>1. \A s : s \in 1 .. k + 2 <=> s \in 1 .. k + 1 \/ s = k + 2
      OBVIOUS
    <3>2. QED
      BY <3>1 DEF KeysUpTo, b
  <2>7. ValidKeys(f[k + 2]) = KeysUpTo(sources, k + 2)
    BY <2>4, <2>5, <2>6 DEF AreOf
  <2>8. ASSUME NEW line \in FirstOnes(f[k + 2])
        PROVE  \E s \in 1 .. k + 2 : /\ line \in FirstOnes(sources[s].Lines)
                                     /\ line.Key \notin KeysUpTo(sources, s - 1)
    <3>1. CASE line \in FirstOnes(a)
      <4>1. PICK s \in 1 .. k + 1 : /\ line \in FirstOnes(sources[s].Lines)
                                    /\ line.Key \notin KeysUpTo(sources, s - 1)
        BY <2>4, <3>1 DEF AreOf
      <4>2. s \in 1 .. k + 2
        OBVIOUS
      <4>3. QED
        BY <4>1, <4>2
    <3>2. CASE line \in FirstOnes(b) /\ line.Key \notin ValidKeys(a)
      <4>1. line \in FirstOnes(sources[k + 2].Lines)
        BY <3>2 DEF b
      <4>2. line.Key \notin KeysUpTo(sources, (k + 2) - 1)
        BY <2>2, <2>4, <3>2 DEF AreOf
      <4>3. k + 2 \in 1 .. k + 2
        OBVIOUS
      <4>4. QED
        BY <4>1, <4>2, <4>3
    <3>3. QED
      BY <2>5, <3>1, <3>2
  <2>9. QED
    BY <2>5, <2>7, <2>8 DEF AreOf
<1>4. SourceCount - 1 \in S
  <2> HIDE DEF S
  <2>1. Nat \subseteq S
    BY <1>2, <1>3, Induction
  <2>2. QED
    BY <2>1, SourceCountAssumption
<1>5. AreOf(sources, SourceCount, f[SourceCount])
  <2>1. SourceCount - 1 \in Nat /\ SourceCount - 1 + 1 = SourceCount
    BY SourceCountAssumption
  <2>2. QED
    BY <1>4, <2>1
<1>6. QED
  BY <1>1, <1>5 DEF AllLines
(***************************************************************************)
(* The fold that adds the counts up.                                       *)
(***************************************************************************)
(* h[S] is the sum over S, taken off one element at a time. *)
Sum(counts, D, h) ==
  h = [S \in SUBSET D |->
         IF S = {} THEN 0
         ELSE LET s == CHOOSE s \in S : TRUE IN counts[s].Unique + h[S \ {s}]]

(* What is new in one source is not in another.                            *)
Apart(new, D) ==
  /\ \A s \in D : IsFiniteSet(new[s])
  /\ \A s, t \in D : s # t => new[s] \cap new[t] = {}

AllOf(new, S) == UNION {new[s] : s \in S}

(* One source less is what is new in it less.                              *)
LEMMA OneLess ==
  ASSUME NEW n \in Nat, NEW D, D = 1 .. n, NEW new, Apart(new, D),
         NEW S \in SUBSET D, NEW s \in S
  PROVE  /\ IsFiniteSet(S) /\ Cardinality(S) \in Nat
         /\ S \ {s} \in SUBSET D /\ Cardinality(S \ {s}) = Cardinality(S) - 1
         /\ IsFiniteSet(AllOf(new, S))
         /\ Cardinality(AllOf(new, S)) =
              Cardinality(new[s]) + Cardinality(AllOf(new, S \ {s}))
<1> DEFINE rest == S \ {s}
<1>1. IsFiniteSet(D)
  BY FS_Interval
<1>2. IsFiniteSet(S) /\ Cardinality(S) \in Nat /\ Cardinality(rest) = Cardinality(S) - 1
  BY <1>1, FS_Subset, FS_CardinalityType, FS_RemoveElement
<1>3. rest \in SUBSET D
  OBVIOUS
<1>4. ASSUME NEW T \in SUBSET D
      PROVE  IsFiniteSet(AllOf(new, T))
  <2> DEFINE parts == {new[t] : t \in T}
             part == [t \in T |-> new[t]]
  <2>1. IsFiniteSet(T)
    BY <1>1, FS_Subset
  <2>2. part \in Surjection(T, parts)
    BY DEF Surjection
  <2>3. \A p \in parts : IsFiniteSet(p)
    BY DEF Apart
  <2> HIDE DEF parts, part
  <2>4. IsFiniteSet(parts)
    BY <2>1, <2>2, FS_Surjection
  <2>5. IsFiniteSet(UNION parts)
    BY <2>3, <2>4, FS_UNION
  <2>6. QED
    BY <2>5 DEF parts, AllOf
<1>5. /\ AllOf(new, S) = new[s] \cup AllOf(new, rest)
      /\ new[s] \cap AllOf(new, rest) = {}
  BY DEF AllOf, Apart
<1>6. IsFiniteSet(new[s]) /\ IsFiniteSet(AllOf(new, rest)) /\ IsFiniteSet(AllOf(new, S))
  BY <1>3, <1>4 DEF Apart
<1> HIDE DEF rest
<1>7. Cardinality(new[s]) \in Nat /\ Cardinality(AllOf(new, rest)) \in Nat
  BY <1>6, FS_CardinalityType
<1>8. Cardinality({}) = 0
  BY FS_EmptySet
<1> DEFINE one == new[s]
           others == AllOf(new, rest)
<1>9. Cardinality(AllOf(new, S)) = Cardinality(one) + Cardinality(others)
  <2>1. /\ IsFiniteSet(one) /\ IsFiniteSet(others) /\ Cardinality(one \cap others) = 0
        /\ Cardinality(one) \in Nat /\ Cardinality(others) \in Nat
        /\ AllOf(new, S) = one \cup others
    BY <1>5, <1>6, <1>7, <1>8
  <2> HIDE DEF one, others
  <2>2. Cardinality(one \cup others) =
          Cardinality(one) + Cardinality(others) - Cardinality(one \cap others)
    BY <2>1, FS_Union
  <2>3. QED
    BY <2>1, <2>2
<1>10. QED
  BY <1>2, <1>3, <1>6, <1>9 DEF rest

(* The fold over what is new in each source counts what is in all of them. *)
LEMMA SumIs ==
  ASSUME NEW n \in Nat, NEW new, Apart(new, 1 .. n),
         NEW counts, counts = [s \in 1 .. n |-> counts[s]],
         \A s \in 1 .. n : counts[s].Unique = Cardinality(new[s])
  PROVE  FoldFunction(LAMBDA source, total : source.Unique + total, 0, counts) =
           Cardinality(AllOf(new, 1 .. n))
<1> DEFINE D == 1 .. n
           size(S) == Cardinality(AllOf(new, S))
           some(S) == CHOOSE s \in S : TRUE
           g == [S \in SUBSET D |-> size(S)]
<1>1. \A S : S # {} => some(S) \in S
  OBVIOUS
<1>2. ASSUME NEW S \in SUBSET D, S # {}
      PROVE  /\ some(S) \in S /\ S \ {some(S)} \in SUBSET D
             /\ Cardinality(S) \in Nat /\ Cardinality(S \ {some(S)}) = Cardinality(S) - 1
             /\ size(S) = counts[some(S)].Unique + size(S \ {some(S)})
  <2>1. some(S) \in S /\ some(S) \in D
    BY <1>1, <1>2
  <2> HIDE DEF some
  <2>2. QED
    BY <2>1, OneLess
<1>3. size({}) = 0
  <2>1. AllOf(new, {}) = {}
    BY DEF AllOf
  <2>2. QED
    BY <2>1, FS_EmptySet
<1>4. Sum(counts, D, g)
  <2>1. ASSUME NEW S \in SUBSET D
        PROVE  g[S] = IF S = {} THEN 0
                      ELSE counts[some(S)].Unique + g[S \ {some(S)}]
    <3>1. CASE S = {}
      BY <1>3, <3>1
    <3>2. CASE S # {}
      <4> HIDE DEF some, size
      <4>1. QED
        BY <1>2, <3>2
    <3>3. QED
      BY <3>1, <3>2
  <2> HIDE DEF size
  <2>2. g = [S \in SUBSET D |-> IF S = {} THEN 0
                                ELSE counts[some(S)].Unique + g[S \ {some(S)}]]
    BY <2>1
  <2> HIDE DEF g
  <2>3. QED
    BY <2>2 DEF Sum
<1>5. ASSUME NEW h, Sum(counts, D, h)
      PROVE  h[D] = size(D)
  <2>1. /\ D \in SUBSET D /\ {} \in SUBSET D
        /\ \A S \in SUBSET D : h[S] = IF S = {} THEN 0
                                      ELSE counts[some(S)].Unique + h[S \ {some(S)}]
    BY <1>5 DEF Sum
  <2> DEFINE K == {k \in Nat : \A S \in SUBSET D : Cardinality(S) = k => h[S] = size(S)}
  <2>2. \A S \in SUBSET D : IsFiniteSet(S) /\ Cardinality(S) \in Nat
    BY FS_Interval, FS_Subset, FS_CardinalityType
  <2> HIDE DEF D, size, some
  <2>3. 0 \in K
    <3>1. \A S \in SUBSET D : Cardinality(S) = 0 => S = {}
      BY <2>2, FS_EmptySet
    <3>2. QED
      BY <1>3, <2>1, <3>1
  <2>4. ASSUME NEW k \in Nat, k \in K
        PROVE  k + 1 \in K
    <3>1. ASSUME NEW S \in SUBSET D, Cardinality(S) = k + 1
          PROVE  h[S] = size(S)
      <4>1. S # {}
        <5>1. Cardinality({}) = 0 /\ k + 1 # 0
          BY FS_EmptySet
        <5>2. QED
          BY <3>1, <5>1
      <4> DEFINE rest == S \ {some(S)}
      <4>2. /\ rest \in SUBSET D /\ Cardinality(rest) = Cardinality(S) - 1
            /\ size(S) = counts[some(S)].Unique + size(rest)
        BY <1>2, <4>1
      <4>3. h[S] = counts[some(S)].Unique + h[rest]
        BY <2>1, <4>1
      <4> HIDE DEF rest
      <4>4. Cardinality(rest) = k
        BY <3>1, <4>2
      <4>5. h[rest] = size(rest)
        BY <2>4, <4>2, <4>4
      <4>6. QED
        BY <4>2, <4>3, <4>5
    <3>2. QED
      BY <3>1
  <2>5. Nat \subseteq K
    <3> HIDE DEF K
    <3>1. QED
      BY <2>3, <2>4, Induction
  <2>6. QED
    BY <2>1, <2>2, <2>5
<1> DEFINE chosen == CHOOSE h : Sum(counts, D, h)
<1>6. Sum(counts, D, chosen)
  BY <1>4, Zenon
<1>7. DOMAIN counts = D
  OBVIOUS
<1>8. FoldFunction(LAMBDA source, total : source.Unique + total, 0, counts) =
        (CHOOSE h : Sum(counts, DOMAIN counts, h))[DOMAIN counts]
  BY Zenon DEF FoldFunction, FoldFunctionOnSet, MapThenFoldSet, Sum
<1>9. QED
  BY <1>5, <1>6, <1>7, <1>8
(***************************************************************************)
(* Attribution.                                                            *)
(***************************************************************************)
(* The second pass over the sources, which AttributeSources makes, comes   *)
(* to what ParseAllLines made of their lines at once.                      *)
LEMMA AttributionIs ==
  ASSUME NEW sources, \A s \in SourceIds : IsFeed(sources[s].Lines)
  PROVE  LET all == ParseAllLines(AllLines(sources)).Records
             counts == AttributeSources(sources)
         IN  /\ FoldFunction(LAMBDA source, total : source.Unique + total, 0, counts) = Len(all)
             /\ \A i \in DOMAIN all :
                  LET owner == OwnerOf(sources, all[i].Id)
                  IN  /\ owner \in SourceIds
                      /\ \E line \in ToSet(sources[owner].Lines) :
                           line.Valid /\ line.Id = all[i].Id
<1> DEFINE all == ParseAllLines(AllLines(sources)).Records
           counts == AttributeSources(sources)
           keys(s) == ValidKeys(sources[s].Lines)
           before(s) == KeysUpTo(sources, s - 1)
           new == [s \in 1 .. SourceCount |-> keys(s) \ before(s)]
<1>1. ASSUME NEW s \in SourceIds
      PROVE  /\ ToSet(ParsedOf(sources, s).Records) = FirstOnes(sources[s].Lines)
             /\ KeysOf(ParsedOf(sources, s).Records) = keys(s)
  BY ParsedAre DEF ParsedOf
<1>2. ASSUME NEW s \in SourceIds
      PROVE  SeenBefore(sources, s) = before(s)
  <2>1. \A t \in 1 .. s - 1 : t \in SourceIds
    BY SourceCountAssumption DEF SourceIds
  <2>2. \A t \in 1 .. s - 1 : KeysOf(ParsedOf(sources, t).Records) = keys(t)
    BY <1>1, <2>1
  <2>3. QED
    BY <2>2 DEF SeenBefore, KeysUpTo
<1>3. Apart(new, 1 .. SourceCount)
  <2>1. ASSUME NEW s \in 1 .. SourceCount
        PROVE  IsFiniteSet(new[s])
    <3>1. IsFiniteSet(keys(s)) /\ new[s] \in SUBSET keys(s)
      BY FirstsAre DEF SourceIds
    <3>2. QED
      BY <3>1, FS_Subset
  <2>2. ASSUME NEW s \in 1 .. SourceCount, NEW t \in 1 .. SourceCount, s < t
        PROVE  new[s] \cap new[t] = {}
    <3>1. s \in 1 .. t - 1
      BY <2>2, SourceCountAssumption
    <3>2. keys(s) \subseteq before(t)
      BY <3>1 DEF KeysUpTo
    <3>3. QED
      BY <3>2
  <2>3. \A s, t \in 1 .. SourceCount : s # t => s < t \/ t < s
    BY SourceCountAssumption
  <2> HIDE DEF new
  <2>4. ASSUME NEW s \in 1 .. SourceCount, NEW t \in 1 .. SourceCount, s # t
        PROVE  new[s] \cap new[t] = {}
    <3>1. CASE s < t
      BY <2>2, <3>1
    <3>2. CASE t < s
      <4>1. new[t] \cap new[s] = {}
        BY <2>2, <3>2
      <4>2. QED
        BY <4>1
    <3>3. QED
      BY <2>3, <2>4, <3>1, <3>2
  <2>5. QED
    BY <2>1, <2>4 DEF Apart
<1>4. AllOf(new, 1 .. SourceCount) = KeysUpTo(sources, SourceCount)
  <2>1. ASSUME NEW k \in KeysUpTo(sources, SourceCount)
        PROVE  k \in AllOf(new, 1 .. SourceCount)
    <3> DEFINE having == {s \in 1 .. SourceCount : k \in keys(s)}
    <3>1. having \in SUBSET Nat /\ having # {}
      BY DEF KeysUpTo
    <3>2. PICK s \in having : \A t \in having : s <= t
      <4> HIDE DEF having
      <4>1. QED
        BY <3>1, LeastExists
    <3>3. s \in 1 .. SourceCount /\ k \in keys(s)
      BY <3>2
    <3>4. k \notin before(s)
      <4>1. \A t \in 1 .. s - 1 : t \in 1 .. SourceCount /\ ~ (s <= t)
        BY <3>3, SourceCountAssumption
      <4>2. \A t \in 1 .. s - 1 : k \notin keys(t)
        BY <3>2, <4>1
      <4>3. QED
        BY <4>2 DEF KeysUpTo
    <3>5. k \in new[s]
      BY <3>3, <3>4
    <3> HIDE DEF new
    <3>6. QED
      BY <3>3, <3>5 DEF AllOf
  <2>2. ASSUME NEW s \in 1 .. SourceCount, NEW k \in new[s]
        PROVE  k \in KeysUpTo(sources, SourceCount)
    BY DEF KeysUpTo
  <2> HIDE DEF new
  <2>3. QED
    BY <2>1, <2>2 DEF AllOf
<1>5. /\ counts = [s \in 1 .. SourceCount |-> counts[s]]
      /\ \A s \in 1 .. SourceCount : counts[s].Unique = Cardinality(new[s])
  <2>1. counts = [s \in SourceIds |-> Attribution(ParsedOf(sources, s),
                    Cardinality(KeysOf(ParsedOf(sources, s).Records)
                                  \ SeenBefore(sources, s)))]
    BY Zenon DEF AttributeSources
  <2> HIDE DEF counts
  <2>2. ASSUME NEW s \in 1 .. SourceCount
        PROVE  counts[s].Unique = Cardinality(new[s])
    <3>1. KeysOf(ParsedOf(sources, s).Records) \ SeenBefore(sources, s) = new[s]
      BY <1>1, <1>2 DEF SourceIds
    <3> HIDE DEF new
    <3>2. counts[s] = Attribution(ParsedOf(sources, s), Cardinality(new[s]))
      BY <2>1, <3>1 DEF SourceIds
    <3>3. QED
      BY <3>2 DEF Attribution
  <2>3. QED
    BY <2>1, <2>2 DEF SourceIds
<1>6. FoldFunction(LAMBDA source, total : source.Unique + total, 0, counts) =
        Cardinality(KeysUpTo(sources, SourceCount))
  <2> HIDE DEF counts, new
  <2>1. SourceCount \in Nat
    BY SourceCountAssumption
  <2>2. QED
    BY <1>3, <1>4, <1>5, <2>1, SumIs
<1>7. /\ IsFeed(AllLines(sources))
      /\ Len(all) = Cardinality(KeysUpTo(sources, SourceCount))
      /\ \A r \in ToSet(all) : \E s \in SourceIds :
           r \in FirstOnes(sources[s].Lines) /\ r.Key \notin before(s)
  <2>1. AreOf(sources, SourceCount, AllLines(sources))
    BY AllLinesAre
  <2>2. Len(all) = Cardinality(ValidKeys(AllLines(sources)))
        /\ ToSet(all) = FirstOnes(AllLines(sources))
    BY <2>1, ParsedAre DEF AreOf
  <2> HIDE DEF all
  <2>3. QED
    BY <2>1, <2>2 DEF AreOf, SourceIds
<1>8. ASSUME NEW i \in DOMAIN all
      PROVE  LET owner == OwnerOf(sources, all[i].Id)
             IN  /\ owner \in SourceIds
                 /\ \E line \in ToSet(sources[owner].Lines) : line.Valid /\ line.Id = all[i].Id
  <2> DEFINE id == all[i].Id
             counted(s) == {r \in ToSet(ParsedOf(sources, s).Records) :
                              r.Id = id /\ r.Key \notin SeenBefore(sources, s)}
             owning == {s \in SourceIds : counted(s) # {}}
             largest == CHOOSE s \in owning : \A t \in owning : t <= s
  <2>1. all[i] \in ToSet(all)
    BY DEF ToSet
  <2>2. PICK s \in SourceIds : all[i] \in FirstOnes(sources[s].Lines) /\ all[i].Key \notin before(s)
    <3> HIDE DEF all
    <3>1. QED
      BY <1>7, <2>1
  <2>3. OwnerOf(sources, id) = IF owning = {} THEN 0 ELSE largest
    BY Zenon DEF OwnerOf
  <2> HIDE DEF all
  <2>4. all[i] \in counted(s)
    BY <1>1, <1>2, <2>2
  <2>5. owning # {} /\ owning \in SUBSET (1 .. SourceCount)
    BY <2>4 DEF SourceIds
  <2>6. \E o \in owning : \A t \in owning : t <= o
    <3> HIDE DEF owning
    <3>1. QED
      BY <2>5, SourceCountAssumption, LargestExists
  <2> DEFINE owner == OwnerOf(sources, id)
  <2>7. owner \in owning
    <3> HIDE DEF owning
    <3>1. largest \in owning
      BY <2>6, Zenon
    <3>2. QED
      BY <2>3, <2>5, <3>1
  <2> HIDE DEF owner, id
  <2>8. PICK r \in counted(owner) : TRUE
    BY <2>7
  <2>9. owner \in SourceIds /\ r \in FirstOnes(sources[owner].Lines) /\ r.Id = id
    BY <1>1, <2>7, <2>8
  <2>10. r \in ToSet(sources[owner].Lines) /\ r.Valid
    BY <2>9 DEF FirstOnes, Firsts, ToSet
  <2>11. QED
    BY <2>9, <2>10 DEF owner, id
<1>9. QED
  BY <1>6, <1>7, <1>8
(* A fetch brings a feed of the source, or nothing.                        *)
LEMMA FetchedAreFeeds ==
  /\ IsFeed(<<>>)
  /\ \A s \in SourceIds : \A via : \A lines \in Feeds[s] : IsFeed(FetchOK(lines, via).Lines)
  /\ \A s \in SourceIds : \A result \in FetchResults(s) : IsFeed(result.Lines)
<1>1. IsFeed(<<>>)
  BY DEF IsFeed, ToSet
<1>2. \A s \in SourceIds : \A via : \A lines \in Feeds[s] : IsFeed(FetchOK(lines, via).Lines)
  BY FeedsAssumption DEF SourceIds, FetchOK
<1>3. \A refused : IsFeed(FetchError(refused).Lines)
  BY <1>1 DEF FetchError
<1>4. ASSUME NEW s \in SourceIds, NEW result \in FetchResults(s)
      PROVE  IsFeed(result.Lines)
  BY <1>2, <1>3 DEF FetchResults, DirectResults
<1>5. QED
  BY <1>1, <1>2, <1>4

(* No step makes a line that no source has.                                *)
LEMMA LinesKept == LinesInv /\ [Next]_vars => LinesInv'
<1> SUFFICES ASSUME LinesInv, [Next]_vars PROVE LinesInv'
  OBVIOUS
<1>1. ASSUME UNCHANGED <<snapshots, fetched>>,
             phase' # "merged" \/ UNCHANGED <<phase, merged>>
      PROVE  LinesInv'
  BY <1>1 DEF LinesInv
<1>2. CASE Fetch
  BY <1>2, FetchedAreFeeds DEF Fetch, To, FetchAllSources, LinesInv
<1>3. CASE Retry
  <2>1. /\ phase' # "merged" /\ snapshots' = snapshots
        /\ \A s \in SourceIds : \/ fetched'[s] = fetched[s]
                                \/ \E lines \in Feeds[s] : fetched'[s] = FetchOK(lines, "proxy")
    BY <1>3 DEF Retry, To, RetryFailedFetchesViaPool
  <2>2. QED
    BY <2>1, FetchedAreFeeds DEF LinesInv
<1>4. CASE Merge
  <2>1. /\ snapshots' = [s \in SourceIds |-> SnapshotAfter(snapshots[s], fetched[s])]
        /\ merged' = [s \in SourceIds |-> MergedSource(snapshots[s], fetched[s])]
        /\ fetched' = fetched
    BY <1>4 DEF Merge, MergeDetailed
  <2>2. ASSUME NEW s \in SourceIds
        PROVE  IsFeed(snapshots'[s].Lines) /\ IsFeed(merged'[s].Lines)
    <3>1. IsFeed(snapshots[s].Lines) /\ IsFeed(fetched[s].Lines)
      BY DEF LinesInv
    <3>2. IsFeed(SnapshotAfter(snapshots[s], fetched[s]).Lines)
      BY <3>1, FetchedAreFeeds DEF SnapshotAfter, NoSnapshot
    <3>3. IsFeed(MergedSource(snapshots[s], fetched[s]).Lines)
      BY <3>1, FetchedAreFeeds DEF MergedSource, Merged
    <3>4. QED
      BY <2>1, <3>2, <3>3
  <2>3. QED
    BY <2>1, <2>2 DEF LinesInv
<1>5. CASE TimePasses
  <2>1. /\ snapshots' = [s \in SourceIds |->
             IF snapshots[s].Lines = <<>> THEN NoSnapshot ELSE Older(snapshots[s])]
        /\ phase' # "merged" /\ fetched' = fetched
    BY <1>5 DEF TimePasses, SourcesAge
  <2>2. ASSUME NEW s \in SourceIds
        PROVE  IsFeed(snapshots'[s].Lines)
    <3>1. IsFeed(snapshots[s].Lines)
      BY DEF LinesInv
    <3>2. QED
      BY <2>1, <3>1, FetchedAreFeeds DEF NoSnapshot, Older
  <2>3. QED
    BY <2>1, <2>2 DEF LinesInv
<1>6. CASE Parse
  <2>1. /\ phase' # "merged" /\ snapshots' = snapshots
        /\ fetched' = [s \in SourceIds |-> FetchError(FALSE)]
    BY <1>6 DEF Parse, To, ForgetFetches
  <2>2. QED
    BY <2>1, FetchedAreFeeds DEF LinesInv, FetchError
<1>7. CASE Resolve \/ StartProbing \/ GiveUp \/ ProbeRecords \/ EndProbing
  BY <1>1, <1>7 DEF Resolve, StartProbing, GiveUp, ProbeRecords, EndProbing, To, sourceVars
<1>8. CASE UNCHANGED vars
  BY <1>1, <1>8 DEF vars, sourceVars
<1>9. QED
  BY <1>2, <1>3, <1>4, <1>5, <1>6, <1>7, <1>8 DEF Next, RefreshStep

----------------------------------------------------------------------------
(* The invariant holds of every behaviour.                                 *)
THEOREM IntakeInvariant == Spec => []IntakeInv
<1>1. Init => IntakeInv
  <2> SUFFICES ASSUME Init PROVE IntakeInv
    OBVIOUS
  <2>1. SourcesInv
    BY MaxAgeAssumption
       DEF Init, SourcesInit, SourcesInv, SourcesRemembered, Remembered, Entry, Usable, NoSnapshot
  <2>2. ResolverInv
    BY DEF Init, ResolverInit, Idle, ResolverInv, RaceOf
  <2>3. ProbeInv
    BY UnstartedType DEF Init, ProbeInit, ProbeInv, ProbeTyped, LookupOf, Asking, Owning
  <2>4. LinesInv
    <3>1. /\ snapshots = [s \in SourceIds |-> NoSnapshot] /\ phase = "idle"
          /\ fetched = [s \in SourceIds |-> FetchError(FALSE)]
      BY DEF Init, SourcesInit
    <3>2. QED
      BY <3>1, FetchedAreFeeds DEF LinesInv, NoSnapshot, FetchError
  <2>5. QED
    BY <2>1, <2>2, <2>3, <2>4 DEF IntakeInv
<1>2. IntakeInv /\ [Next]_vars => IntakeInv'
  BY SourcesKept, LinesKept, ResolverKept, ProbeKept DEF IntakeInv
<1>3. QED
  BY <1>1, <1>2, PTL DEF Spec

(* A source that fails stands for what it said last, and one that refuses  *)
(* or says that it has nothing is believed (MergeDetailed, SaveStale).     *)
THEOREM FailuresStandIn == Spec => []SourcesRemembered
<1>1. IntakeInv => SourcesRemembered
  BY DEF IntakeInv, SourcesInv
<1>2. QED
  BY <1>1, IntakeInvariant, PTL

(* RacingResolver.resolveRace loses no address that a resolver found: the  *)
(* channel has room for the first, and is closed after the last racer.     *)
THEOREM NoAddressIsLost == Spec => []DroppedOnlyIfNobodyAnswers
<1>1. IntakeInv => DroppedOnlyIfNobodyAnswers
  BY DEF IntakeInv, ResolverInv, RaceOf, DroppedOnlyIfNobodyAnswers
<1>2. QED
  BY <1>1, IntakeInvariant, PTL

(* The memo and the singleflight group of lookupObservedExit tell every    *)
(* probe of a refresh the same about an exit address.                      *)
THEOREM OneAnswerPerExit == Spec => []ExitsAgree
<1>1. IntakeInv => ExitsAgree
  <2> SUFFICES ASSUME IntakeInv, NEW i \in Probes, NEW j \in Probes,
                      NEW a \in told[i], NEW b \in told[j], a.IP = b.IP
               PROVE  a = b
    BY DEF ExitsAgree
  <2>1. a = Observation(a.IP, geoByIP[a.IP]) /\ b = Observation(b.IP, geoByIP[b.IP])
    BY DEF IntakeInv, ProbeInv, LookupOf
  <2>2. QED
    BY <2>1
<1>2. QED
  BY <1>1, IntakeInvariant, PTL

(* What the attribution counts, and whom it names, agrees with the records *)
(* of the refresh, whatever the sources serve (AttributeSources).          *)
THEOREM AttributionAgreesHolds == Spec => []AttributionAgrees
<1>1. LinesInv => AttributionAgrees
  <2> SUFFICES ASSUME LinesInv, phase = "merged" PROVE AttributionAgrees
    BY DEF AttributionAgrees
  <2>1. \A s \in SourceIds : IsFeed(merged[s].Lines)
    BY DEF LinesInv
  <2>2. QED
    BY <2>1, AttributionIs, Zenon DEF AttributionAgrees
<1>2. IntakeInv => AttributionAgrees
  BY <1>1 DEF IntakeInv
<1>3. QED
  BY <1>2, IntakeInvariant, PTL
=============================================================================
