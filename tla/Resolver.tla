------------------------------ MODULE Resolver ------------------------------
(***************************************************************************)
(* dns.ResolveHosts and resolveRacing: every host is asked of several      *)
(* resolvers at once.  The first that finds an address puts it into a      *)
(* channel with room for one, the others find the channel full or already  *)
(* read and go, and a closer closes the channel when none is left.  A host *)
(* without an address is not probed, so what a refresh sees of a proxy     *)
(* depends on this race.                                                   *)
(*                                                                         *)
(* An address is not told from another.  A resolver that runs out of time  *)
(* fails.                                                                  *)
(***************************************************************************)
EXTENDS Integers, FiniteSets

CONSTANTS
  Hosts,           \* the hosts of all records
  Literals,        \* the hosts that are IP addresses
  Racers,          \* the resolvers that are asked
  MaxResolving     \* the limit of the errgroup

ASSUME LiteralsAssumption == Literals \subseteq Hosts
ASSUME MaxResolvingAssumption == MaxResolving \in Nat \ {0}

VARIABLES
  answers,     \* answers[h]: "unasked", "pending", "found" or "none"
  asking,      \* asking[h]: the racers that have not returned
  first,       \* first[h]: the channel, "empty", "full", and "drained" or
               \* "closed" when it is closed with and without an address in it
  heard,       \* the hosts for which some racer found an address; history
  dnsCache     \* DNSCache: the hosts with an entry

resolverVars == <<answers, asking, first, heard, dnsCache>>

Idle ==
  /\ answers = [h \in Hosts |-> "unasked"]
  /\ asking = [h \in Hosts |-> {}]
  /\ first = [h \in Hosts |-> "empty"]
  /\ heard = {}

ResolverInit == Idle /\ dnsCache = {}

(* What is left of the races when ResolveHosts returns shares nothing with *)
(* what follows.                                                           *)
ForgetRaces ==
  /\ answers' = [h \in Hosts |-> "unasked"]
  /\ asking' = [h \in Hosts |-> {}]
  /\ first' = [h \in Hosts |-> "empty"]
  /\ heard' = {}

Answer(h, answer) == answers' = [answers EXCEPT ![h] = answer]

(* A valid cache entry, or an address in place of a name.                  *)
AnswerAtOnce(h) ==
  /\ answers[h] = "unasked"
  /\ h \in dnsCache \cup Literals
  /\ Answer(h, "found")
  /\ dnsCache' = dnsCache \cup {h}
  /\ UNCHANGED <<asking, first, heard>>

Resolving == {h \in Hosts : answers[h] = "pending"}

(* DNSCache.Get finds no entry, or one that has outlived its ttl.          *)
StartRace(h) ==
  /\ answers[h] = "unasked"
  /\ h \notin Literals
  /\ Cardinality(Resolving) < MaxResolving
  /\ Answer(h, "pending")
  /\ asking' = [asking EXCEPT ![h] = Racers]
  /\ dnsCache' = dnsCache \ {h}
  /\ UNCHANGED <<first, heard>>

Returns(h, racer) == asking' = [asking EXCEPT ![h] = @ \ {racer}]

(* The send has a default: a full channel does not keep the racer.         *)
RacerFinds(h, racer) ==
  /\ racer \in asking[h]
  /\ Returns(h, racer)
  /\ heard' = heard \cup {h}
  /\ first' = [first EXCEPT ![h] = IF @ = "empty" THEN "full" ELSE @]
  /\ UNCHANGED <<answers, dnsCache>>

RacerFails(h, racer) ==
  /\ racer \in asking[h]
  /\ Returns(h, racer)
  /\ UNCHANGED <<answers, first, heard, dnsCache>>

(* Defective variant: the closer does not wait for the last racer.         *)
AllReturnedEarly(h) == Cardinality(asking[h]) <= 1

AllReturned(h) == asking[h] = {}

(* Defective variant: the channel is never closed. *)
CloseMissing(h) == answers[h] = "closed" /\ UNCHANGED resolverVars

Close(h) ==
  /\ answers[h] # "unasked"
  /\ h \notin Literals
  /\ AllReturned(h)
  /\ first[h] \in {"empty", "full"}
  /\ first' = [first EXCEPT ![h] = IF @ = "full" THEN "closed" ELSE "drained"]
  /\ UNCHANGED <<answers, asking, heard, dnsCache>>

(* <-first: an address, or the channel is closed without one.              *)
TakeFirst(h) ==
  /\ answers[h] = "pending"
  /\ \/ /\ first[h] \in {"full", "closed"}
        /\ Answer(h, "found")
        /\ first' = [first EXCEPT ![h] = IF @ = "full" THEN "empty" ELSE "drained"]
        /\ dnsCache' = dnsCache \cup {h}
     \/ /\ first[h] = "drained"
        /\ Answer(h, "none")
        /\ UNCHANGED <<first, dnsCache>>
  /\ UNCHANGED <<asking, heard>>

ResolverStep(hosts) ==
  \E h \in hosts :
    \/ StartRace(h) \/ AnswerAtOnce(h) \/ TakeFirst(h) \/ Close(h)
    \/ \E racer \in Racers : RacerFinds(h, racer) \/ RacerFails(h, racer)
=============================================================================
