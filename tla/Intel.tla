------------------------------- MODULE Intel -------------------------------
(***************************************************************************)
(* ipintel: what several providers say about an exit address, merged into  *)
(* one verdict.  The aggregator asks its providers at the same time and    *)
(* merges the answers in the order they came; check.place and proxycheck,  *)
(* which are asked through the pool, are merged into that verdict one by   *)
(* one afterwards (enrichment.go).  Names, network and place of an address *)
(* are the first that is given and left out here.                          *)
(***************************************************************************)
EXTENDS Integers, FiniteSets, Sequences, SequencesExt

Flags == {"proxy", "vpn", "tor", "abuser", "datacenter", "crawler"}

Types == { "unset", "residential", "mobile", "hosting", "business", "cdn",
           "education", "government", "other", "unknown" }

(* A provider's Result: Score is 0 where HasScore is false.                *)
Results == [Source : STRING, Flags : SUBSET Flags, Type : Types, Score : Nat]

ResultOf(source, flags, type, score) ==
  [Source |-> source, Flags |-> flags, Type |-> type, Score |-> score]

NoIntel == [ Flags |-> {}, Type |-> "unset", RiskLevel |-> "unset", RiskScore |-> 0,
             Sources |-> {} ]

Larger(a, b) == IF a > b THEN a ELSE b

ClassifyRisk(flags) ==
  IF flags \cap {"abuser", "tor"} # {} THEN "risky"
  ELSE IF flags \cap {"proxy", "vpn", "datacenter"} # {} THEN "suspicious"
  ELSE "clean"

CompositeScore(flags) ==
  LET weight(flag, w) == IF flag \in flags THEN w ELSE 0
      sum == weight("proxy", 25) + weight("vpn", 25) + weight("datacenter", 10)
               + weight("abuser", 40) + weight("tor", 35) + weight("crawler", 5)
  IN  IF sum > 100 THEN 100 ELSE sum

TypesInTurn == <<"mobile", "cdn", "business", "education", "government">>

(* Hosting goes before all, then the types in turn. *)
NormalizeType(results, flags) ==
  LET types == {r.Type : r \in ToSet(results)}
      named == {i \in DOMAIN TypesInTurn : TypesInTurn[i] \in types}
  IN  IF "datacenter" \in flags \/ "hosting" \in types THEN "hosting"
      ELSE IF named # {} THEN TypesInTurn[Min(named)]
      ELSE "residential"

(* merge: the answers of the aggregator's providers, at least one.         *)
MergeAll(results) ==
  LET flags == UNION {r.Flags : r \in ToSet(results)}
      scores == {r.Score : r \in ToSet(results)}
  IN  [ Flags |-> flags, Type |-> NormalizeType(results, flags),
        RiskLevel |-> ClassifyRisk(flags),
        RiskScore |-> Max({CompositeScore(flags)} \cup scores),
        Sources |-> {r.Source : r \in ToSet(results)} ]

(* Defective variant: the level is left as the aggregator put it.          *)
MergeResultLevelKept(intel, result) ==
  LET flags == intel.Flags \cup result.Flags
  IN  [intel EXCEPT
        !.Flags = flags,
        !.RiskScore = Larger(Larger(@, result.Score), CompositeScore(flags)),
        !.Sources = @ \cup {result.Source}]

MergedType(type, result) ==
  IF "datacenter" \in result.Flags \/ result.Type = "hosting" THEN "hosting"
  ELSE IF result.Type # "unset" /\ type \in {"unset", "residential"} THEN result.Type
  ELSE type

(* MergeResult: one more answer for a verdict there is.                    *)
MergeResult(intel, result) ==
  LET flags == intel.Flags \cup result.Flags
  IN  [ Flags |-> flags,
        Type |-> MergedType(intel.Type, result),
        RiskLevel |-> ClassifyRisk(flags),
        RiskScore |-> Larger(Larger(intel.RiskScore, result.Score), CompositeScore(flags)),
        Sources |-> intel.Sources \cup {result.Source} ]
=============================================================================
