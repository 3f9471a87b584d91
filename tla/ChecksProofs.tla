---------------------------- MODULE ChecksProofs ----------------------------
(***************************************************************************)
(* VerdictOfAll of Checks, for any providers, any number of their answers  *)
(* and any order of them.  The verdict is merged one answer at a time      *)
(* while the property looks at all answers at once, so the work is to show *)
(* that one more answer does to both the same: to the flags, the risk, the *)
(* largest score and the type.  The rest of Checks is about liveness.      *)
(***************************************************************************)
EXTENDS Checks, FiniteSetTheorems, SequenceTheorems, TLAPS

(***************************************************************************)
(* The largest of a set of numbers.                                        *)
(***************************************************************************)
(* A finite set of numbers that is not empty has a largest one: one that   *)
(* fewest are above.                                                       *)
LEMMA LargestExists ==
  ASSUME NEW S \in SUBSET Int, IsFiniteSet(S), S # {}
  PROVE  \E x \in S : \A y \in S : x >= y
<1> DEFINE above(x) == {y \in S : y > x}
           T == {Cardinality(above(x)) : x \in S}
           less == OpToRel(<, Nat)
<1>1. \A x \in S : IsFiniteSet(above(x)) /\ Cardinality(above(x)) \in Nat
  BY FS_Subset, FS_CardinalityType
<1>2. T \subseteq Nat /\ T # {}
  BY <1>1
<1>3. \A m, n \in Nat : m < n => <<m, n>> \in less
  BY DEF OpToRel
<1>4. \E n \in T : \A m \in T : <<m, n>> \notin less
  <2> HIDE DEF T, less
  <2>1. IsWellFoundedOn(less, Nat)
    BY NatLessThanWellFounded DEF less
  <2>2. QED
    BY <1>2, <2>1, WFMin
<1>5. PICK x \in S : \A y \in S : <<Cardinality(above(y)), Cardinality(above(x))>> \notin less
  BY <1>4
<1>6. ASSUME NEW y \in S, y > x
      PROVE  FALSE
  <2>1. y \in above(x) /\ y \notin above(y)
    BY <1>6
  <2>2. above(y) \in SUBSET above(x)
    <3>1. \A z \in S : z > y => z > x
      BY <1>6
    <3>2. \A z \in above(y) : z \in above(x)
      BY <3>1
    <3>3. QED
      BY <3>2
  <2>3. IsFiniteSet(above(x))
    BY <1>1
  <2> HIDE DEF above
  <2>4. /\ Cardinality(above(y)) <= Cardinality(above(x))
        /\ Cardinality(above(y)) # Cardinality(above(x))
    BY <2>1, <2>2, <2>3, FS_Subset
  <2>5. Cardinality(above(y)) < Cardinality(above(x))
    BY <1>1, <2>4
  <2>6. QED
    BY <1>1, <1>3, <1>5, <2>5
<1>7. QED
  BY <1>6

(* Max is that number, and nothing but it.                                 *)
LEMMA MaxIs ==
  ASSUME NEW S \in SUBSET Int, IsFiniteSet(S), S # {}
  PROVE  /\ Max(S) \in S
         /\ \A y \in S : Max(S) >= y
         /\ \A x \in S : (\A y \in S : x >= y) => x = Max(S)
<1>1. \E x \in S : \A y \in S : x >= y
  BY LargestExists
<1>2. Max(S) \in S /\ \A y \in S : Max(S) >= y
  BY <1>1 DEF Max
<1>3. ASSUME NEW x \in S, \A y \in S : x >= y
      PROVE  x = Max(S)
  <2>1. x >= Max(S) /\ Max(S) >= x /\ x \in Int /\ Max(S) \in Int
    BY <1>2, <1>3
  <2>2. QED
    BY <2>1
<1>4. QED
  BY <1>2, <1>3

(***************************************************************************)
(* The parts of a verdict.                                                 *)
(***************************************************************************)
(* A score of flags is a number, and more flags never have a smaller one.  *)
LEMMA ScoreGrows ==
  ASSUME NEW flags, NEW more, flags \subseteq more
  PROVE  /\ CompositeScore(flags) \in Nat
         /\ CompositeScore(more) \in Nat
         /\ CompositeScore(flags) <= CompositeScore(more)
  BY DEF CompositeScore

(* The larger of two numbers.                                              *)
LEMMA LargerIs ==
  ASSUME NEW a \in Nat, NEW b \in Nat
  PROVE  /\ Larger(a, b) \in {a, b} /\ Larger(a, b) \in Nat
         /\ Larger(a, b) >= a /\ Larger(a, b) >= b
  BY DEF Larger

(* One more score, with the flags it came with, moves the largest as       *)
(* MergeResult moves the risk.                                             *)
LEMMA RiskGrows ==
  ASSUME NEW scores \in SUBSET Nat, IsFiniteSet(scores), NEW score \in Nat,
         NEW flags, NEW more, flags \subseteq more
  PROVE  Max({CompositeScore(more)} \cup (scores \cup {score})) =
           Larger(Larger(Max({CompositeScore(flags)} \cup scores), score),
                  CompositeScore(more))
<1> DEFINE a == CompositeScore(flags)
           b == CompositeScore(more)
           before == {a} \cup scores
           after == {b} \cup (scores \cup {score})
           new == Larger(Larger(Max(before), score), b)
<1>1. a \in Nat /\ b \in Nat /\ a <= b
  BY ScoreGrows
<1> HIDE DEF a, b
<1>2. before \in SUBSET Int /\ IsFiniteSet(before) /\ before # {}
  BY <1>1, FS_AddElement
<1>3. after \in SUBSET Int /\ IsFiniteSet(after) /\ after # {}
  <2>1. IsFiniteSet(scores \cup {score})
    BY FS_AddElement
  <2>2. after = (scores \cup {score}) \cup {b}
    OBVIOUS
  <2>3. QED
    BY <1>1, <2>1, <2>2, FS_AddElement
<1>4. Max(before) \in before /\ \A y \in before : Max(before) >= y
  BY <1>2, MaxIs
<1>5. Max(before) \in Nat
  BY <1>1, <1>4
<1>6. /\ new \in {Max(before), score, b} /\ new \in Nat
      /\ new >= Max(before) /\ new >= score /\ new >= b
  <2>1. LET l == Larger(Max(before), score)
        IN  /\ l \in {Max(before), score} /\ l \in Nat
            /\ l >= Max(before) /\ l >= score
    BY <1>5, LargerIs
  <2> DEFINE l == Larger(Max(before), score)
  <2>2. /\ new \in {l, b} /\ new \in Nat /\ new >= l /\ new >= b
    BY <1>1, <2>1, LargerIs
  <2> HIDE DEF l, new
  <2>3. QED
    BY <1>1, <1>5, <2>1, <2>2 DEF l
<1> HIDE DEF new
<1>7. new \in after
  <2>1. CASE new = Max(before)
    <3>1. CASE Max(before) = a
      BY <1>1, <1>6, <2>1, <3>1
    <3>2. CASE Max(before) \in scores
      BY <2>1, <3>2
    <3>3. QED
      BY <1>4, <3>1, <3>2
  <2>2. CASE new \in {score, b}
    BY <2>2
  <2>3. QED
    BY <1>6, <2>1, <2>2
<1>8. \A y \in after : new >= y
  <2>1. \A y \in scores : Max(before) >= y
    BY <1>4
  <2>2. ASSUME NEW y \in scores
        PROVE  new >= y
    BY <1>5, <1>6, <2>1
  <2>3. QED
    BY <1>6, <2>2
<1>9. new = Max(after)
  BY <1>3, <1>7, <1>8, MaxIs
<1>10. QED
  BY <1>9 DEF new, a, b

(* The scores of an answered sequence are a finite set of numbers, and one *)
(* answer more is one member more of everything.                           *)
LEMMA AnswersAre ==
  ASSUME NEW results \in Seq(Results)
  PROVE  /\ ToSet(results) \in SUBSET Results
         /\ results = <<>> <=> ToSet(results) = {}
         /\ {r.Score : r \in ToSet(results)} \in SUBSET Nat
         /\ IsFiniteSet({r.Score : r \in ToSet(results)})
         /\ SourcesOf(results) = {r.Source : r \in ToSet(results)}
<1> DEFINE n == Len(results)
           scores == {r.Score : r \in ToSet(results)}
           score == [i \in 1 .. n |-> results[i].Score]
<1>1. n \in Nat /\ results \in [1 .. n -> Results] /\ DOMAIN results = 1 .. n
  BY LenProperties
<1>2. ToSet(results) \in SUBSET Results
  BY <1>1 DEF ToSet
<1>3. results = <<>> <=> ToSet(results) = {}
  <2>1. CASE n = 0
    BY <1>1, <2>1 DEF ToSet
  <2>2. CASE n # 0
    <3>1. 1 \in DOMAIN results
      BY <1>1, <2>2
    <3>2. results[1] \in ToSet(results)
      BY <3>1 DEF ToSet
    <3>3. results # <<>>
      BY <2>2
    <3>4. QED
      BY <3>2, <3>3
  <2>3. QED
    BY <2>1, <2>2
<1>4. scores \in SUBSET Nat
  BY <1>2 DEF Results
<1>5. score \in Surjection(1 .. n, scores)
  <2>1. \A i \in 1 .. n : score[i] \in scores
    BY <1>1 DEF ToSet
  <2>2. \A x \in scores : \E i \in 1 .. n : score[i] = x
    BY <1>1 DEF ToSet
  <2>3. QED
    BY <2>1, <2>2 DEF Surjection
<1>6. IsFiniteSet(scores)
  BY <1>1, <1>5, FS_Interval, FS_Surjection
<1>7. SourcesOf(results) = {r.Source : r \in ToSet(results)}
  BY <1>1 DEF SourcesOf, ToSet
<1>8. QED
  BY <1>2, <1>3, <1>4, <1>6, <1>7

(* One answer more.                                                        *)
LEMMA AnswerAdded ==
  ASSUME NEW results \in Seq(Results), NEW result \in Results
  PROVE  /\ Append(results, result) \in Seq(Results)
         /\ Append(results, result) # <<>>
         /\ ToSet(Append(results, result)) = ToSet(results) \cup {result}
<1> DEFINE n == Len(results)
           more == Append(results, result)
<1>1. /\ more \in Seq(Results) /\ more # <<>> /\ Len(more) = n + 1
      /\ \A i \in 1 .. n : more[i] = results[i]
      /\ more[n + 1] = result
  BY AppendProperties
<1>2. n \in Nat /\ DOMAIN results = 1 .. n /\ DOMAIN more = 1 .. n + 1
  BY <1>1, LenProperties
<1> HIDE DEF n, more
<1>3. \A i \in 1 .. n + 1 : i \in 1 .. n \/ i = n + 1
  BY <1>2
<1>4. \A i \in 1 .. n : i \in 1 .. n + 1
  BY <1>2
<1>5. n + 1 \in 1 .. n + 1
  BY <1>2
<1>6. ToSet(more) = ToSet(results) \cup {result}
  <2>1. ASSUME NEW x \in ToSet(more)
        PROVE  x \in ToSet(results) \cup {result}
    <3>1. PICK i \in 1 .. n + 1 : x = more[i]
      BY <1>2 DEF ToSet
    <3>2. QED
      BY <1>1, <1>2, <1>3, <3>1 DEF ToSet
  <2>2. ASSUME NEW x \in ToSet(results) \cup {result}
        PROVE  x \in ToSet(more)
    BY <1>1, <1>2, <1>4, <1>5 DEF ToSet
  <2>3. QED
    BY <2>1, <2>2
<1>7. QED
  BY <1>1, <1>6 DEF more

(* The type of an address is hosting when an answer says so, and only then.*)
LEMMA TypeIsHosting ==
  ASSUME NEW results \in Seq(Results),
         NEW flags, flags = UNION {r.Flags : r \in ToSet(results)}
  PROVE  NormalizeType(results, flags) = "hosting"
           <=> \E r \in ToSet(results) : "datacenter" \in r.Flags \/ r.Type = "hosting"
<1> DEFINE types == {r.Type : r \in ToSet(results)}
           named == {i \in DOMAIN TypesInTurn : TypesInTurn[i] \in types}
<1>1. "datacenter" \in flags \/ "hosting" \in types
        <=> \E r \in ToSet(results) : "datacenter" \in r.Flags \/ r.Type = "hosting"
  OBVIOUS
<1>2. /\ DOMAIN TypesInTurn = 1 .. 5
      /\ \A i \in 1 .. 5 : TypesInTurn[i] # "hosting"
  BY DEF TypesInTurn
<1>3. named \in SUBSET (1 .. 5)
  BY <1>2
<1> HIDE DEF named
<1>4. named # {} => Min(named) \in named
  <2>1. ASSUME NEW i \in 1 .. 5, i \in named,
               \A j \in 1 .. 5 : j < i => j \notin named
        PROVE  Min(named) \in named
    <3>1. \A j \in named : i =< j
      BY <1>3, <2>1
    <3>2. QED
      BY <2>1, <3>1 DEF Min
  <2>2. named # {} => \E i \in 1 .. 5 : /\ i \in named
                                       /\ \A j \in 1 .. 5 : j < i => j \notin named
    <3>1. \A j \in 1 .. 5 : j \in {1, 2, 3, 4, 5}
      OBVIOUS
    <3>2. CASE 1 \in named
      BY <3>2
    <3>3. CASE 1 \notin named /\ 2 \in named
      BY <3>3
    <3>4. CASE 1 \notin named /\ 2 \notin named /\ 3 \in named
      BY <3>4
    <3>5. CASE 1 \notin named /\ 2 \notin named /\ 3 \notin named /\ 4 \in named
      BY <3>5
    <3>6. CASE /\ 1 \notin named /\ 2 \notin named /\ 3 \notin named
               /\ 4 \notin named /\ 5 \in named
      BY <3>6
    <3>7. QED
      BY <1>3, <3>1, <3>2, <3>3, <3>4, <3>5, <3>6
  <2>3. QED
    BY <2>1, <2>2
<1>5. named # {} => TypesInTurn[Min(named)] # "hosting"
  BY <1>2, <1>3, <1>4
<1> HIDE DEF types
<1>6. NormalizeType(results, flags) =
        IF "datacenter" \in flags \/ "hosting" \in types THEN "hosting"
        ELSE IF named # {} THEN TypesInTurn[Min(named)] ELSE "residential"
  BY Zenon DEF NormalizeType, types, named
<1>7. QED
  BY <1>1, <1>5, <1>6

(***************************************************************************)
(* The invariant and the theorem.                                          *)
(***************************************************************************)
(* VerdictOfAll says nothing of an address nobody answered about, whose    *)
(* verdict the first answer from the pool is merged into.                  *)
VerdictInv ==
  /\ asked \in Seq(Results)
  /\ asked = <<>> => verdict = NoIntel
  /\ VerdictOfAll

(* The aggregator looks at all answers at once, as the property does.      *)
LEMMA AskMerges ==
  ASSUME Ask
  PROVE  VerdictInv'
<1>1. PICK results \in SeqOf(Providers, Cardinality({r.Source : r \in Providers})) :
        /\ asked' = results
        /\ verdict' = IF results = <<>> THEN NoIntel ELSE MergeAll(results)
  BY DEF Ask
<1>2. results \in Seq(Results)
  <2>1. PICK m \in 0 .. Cardinality({r.Source : r \in Providers}) : results \in [1 .. m -> Providers]
    BY DEF SeqOf
  <2>2. m \in Nat /\ results \in [1 .. m -> Results]
    BY <2>1, ProvidersAssumption
  <2>3. QED
    BY <2>2, IsASeq
<1>3. CASE results = <<>>
  BY <1>1, <1>2, <1>3 DEF VerdictInv, VerdictOfAll
<1>4. CASE results # <<>>
  <2> DEFINE flags == UNION {r.Flags : r \in ToSet(results)}
             scores == {r.Score : r \in ToSet(results)}
  <2>1. /\ verdict'.Flags = flags
        /\ verdict'.Type = NormalizeType(results, flags)
        /\ verdict'.RiskLevel = ClassifyRisk(flags)
        /\ verdict'.RiskScore = Max({CompositeScore(flags)} \cup scores)
        /\ verdict'.Sources = {r.Source : r \in ToSet(results)}
    BY <1>1, <1>4 DEF MergeAll
  <2>2. NormalizeType(results, flags) = "hosting"
          <=> \E r \in ToSet(results) : "datacenter" \in r.Flags \/ r.Type = "hosting"
    BY <1>2, TypeIsHosting
  <2>3. SourcesOf(results) = {r.Source : r \in ToSet(results)}
    BY <1>2, AnswersAre
  <2>4. VerdictOfAll'
    BY <1>1, <2>1, <2>2, <2>3 DEF VerdictOfAll
  <2>5. QED
    BY <1>1, <1>2, <1>4, <2>4 DEF VerdictInv
<1>5. QED
  BY <1>3, <1>4

(* One answer merged into the verdict of those before makes the verdict of *)
(* all.                                                                    *)
LEMMA PoolMerges ==
  ASSUME VerdictInv, AskThroughPool
  PROVE  VerdictInv'
<1>1. PICK result \in PoolProviders :
        /\ asked' = Append(asked, result)
        /\ verdict' = MergeResult(verdict, result)
  BY DEF AskThroughPool
<1> DEFINE flags == UNION {r.Flags : r \in ToSet(asked)}
           scores == {r.Score : r \in ToSet(asked)}
           more == flags \cup result.Flags
<1>2. /\ result \in Results /\ asked \in Seq(Results)
      /\ result.Flags \in SUBSET Flags /\ result.Score \in Nat
  BY ProvidersAssumption DEF VerdictInv, Results
<1>3. /\ asked' \in Seq(Results) /\ asked' # <<>>
      /\ ToSet(asked') = ToSet(asked) \cup {result}
  BY <1>1, <1>2, AnswerAdded
<1>4. /\ UNION {r.Flags : r \in ToSet(asked')} = more
      /\ {r.Score : r \in ToSet(asked')} = scores \cup {result.Score}
      /\ SourcesOf(asked') = SourcesOf(asked) \cup {result.Source}
  <2>1. SourcesOf(asked') = {r.Source : r \in ToSet(asked')}
    BY <1>3, AnswersAre
  <2>2. SourcesOf(asked) = {r.Source : r \in ToSet(asked)}
    BY <1>2, AnswersAre
  <2>3. QED
    BY <1>3, <2>1, <2>2
<1>5. /\ scores \in SUBSET Nat /\ IsFiniteSet(scores)
      /\ asked = <<>> <=> ToSet(asked) = {}
  BY <1>2, AnswersAre
<1>6. /\ verdict.Flags = flags
      /\ verdict.Sources = SourcesOf(asked)
      /\ verdict.Type = "hosting"
           <=> \E r \in ToSet(asked) : "datacenter" \in r.Flags \/ r.Type = "hosting"
  <2>1. CASE asked = <<>>
    BY <1>5, <2>1 DEF VerdictInv, NoIntel, SourcesOf
  <2>2. CASE asked # <<>>
    BY <2>2 DEF VerdictInv, VerdictOfAll
  <2>3. QED
    BY <2>1, <2>2
<1>7. /\ verdict'.Flags = more
      /\ verdict'.Type = MergedType(verdict.Type, result)
      /\ verdict'.RiskLevel = ClassifyRisk(more)
      /\ verdict'.RiskScore =
           Larger(Larger(verdict.RiskScore, result.Score), CompositeScore(more))
      /\ verdict'.Sources = SourcesOf(asked) \cup {result.Source}
  BY <1>1, <1>6 DEF MergeResult
<1>8. verdict'.RiskScore = Max({CompositeScore(more)} \cup (scores \cup {result.Score}))
  <2>1. scores \in SUBSET Nat /\ IsFiniteSet(scores) /\ flags \subseteq more
    BY <1>5
  <2>2. verdict.RiskScore = Max({CompositeScore(flags)} \cup scores)
    <3>1. CASE asked # <<>>
      BY <3>1 DEF VerdictInv, VerdictOfAll
    <3>2. CASE asked = <<>>
      <4>1. scores = {} /\ flags = {} /\ verdict.RiskScore = 0
        BY <1>5, <3>2 DEF VerdictInv, NoIntel
      <4>2. CompositeScore({}) = 0
        BY DEF CompositeScore
      <4>3. {0} \in SUBSET Int /\ {0} # {}
        OBVIOUS
      <4>4. IsFiniteSet({0})
        BY FS_Singleton, Zenon
      <4>5. Max({0}) = 0
        BY <4>3, <4>4, MaxIs
      <4>6. {CompositeScore(flags)} \cup scores = {0}
        BY <4>1, <4>2
      <4>7. QED
        BY <4>1, <4>5, <4>6
    <3>3. QED
      BY <3>1, <3>2
  <2> HIDE DEF flags, scores, more
  <2>3. Max({CompositeScore(more)} \cup (scores \cup {result.Score})) =
          Larger(Larger(Max({CompositeScore(flags)} \cup scores), result.Score),
                 CompositeScore(more))
    BY <1>2, <2>1, RiskGrows
  <2>4. QED
    BY <1>7, <2>2, <2>3
<1>9. verdict'.Type = "hosting"
        <=> \E r \in ToSet(asked') : "datacenter" \in r.Flags \/ r.Type = "hosting"
  <2>1. verdict'.Type = "hosting"
          <=> \/ "datacenter" \in result.Flags \/ result.Type = "hosting"
              \/ verdict.Type = "hosting"
    BY <1>7 DEF MergedType
  <2>2. QED
    BY <1>3, <1>6, <2>1
<1> HIDE DEF flags, scores, more
<1>10. VerdictOfAll'
  BY <1>3, <1>4, <1>7, <1>8, <1>9 DEF VerdictOfAll
<1>11. QED
  BY <1>3, <1>10 DEF VerdictInv

(* A verdict is that of all who answered, in whatever order and whether    *)
(* at once or through the pool: no flag is lost, the risk is that of the   *)
(* flags and never below a score, a hosting address is called so.          *)
THEOREM VerdictOfAllHolds == Spec => []VerdictOfAll
<1>1. Init => VerdictInv
  BY EmptySeq DEF Init, VerdictInv, VerdictOfAll
<1>2. VerdictInv /\ [Next]_vars => VerdictInv'
  <2> SUFFICES ASSUME VerdictInv, [Next]_vars PROVE VerdictInv'
    OBVIOUS
  <2>1. ASSUME UNCHANGED verdictVars PROVE VerdictInv'
    BY <2>1 DEF verdictVars, VerdictInv, VerdictOfAll, SourcesOf
  <2>2. CASE Ask
    BY <2>2, AskMerges
  <2>3. CASE AskThroughPool
    BY <2>3, PoolMerges
  <2>4. CASE Forget
    <3>1. asked' = <<>> /\ verdict' = NoIntel
      BY <2>4 DEF Forget
    <3>2. QED
      BY <3>1, EmptySeq DEF VerdictInv, VerdictOfAll
  <2>5. CASE Runs \/ Relist \/ EnrichmentAges
    BY <2>1, <2>5
    DEF Runs, RunEnrichmentChecks, RunServiceChecks, MeasureBandwidth, Relist, EnrichmentAges
  <2>6. CASE UNCHANGED vars
    BY <2>1, <2>6 DEF vars
  <2>7. QED
    BY <2>2, <2>3, <2>4, <2>5, <2>6 DEF Next
<1>3. VerdictInv => VerdictOfAll
  BY DEF VerdictInv
<1>4. QED
  BY <1>1, <1>2, <1>3, PTL DEF Spec
=============================================================================
