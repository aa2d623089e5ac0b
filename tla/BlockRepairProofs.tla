-------------------------- MODULE BlockRepairProofs --------------------------
(***************************************************************************)
(* Who may touch which cells, and who waits for whom, for any issues,      *)
(* blocks, proposals, caps, crashes and resumes: proofs about BlockRepair. *)
(***************************************************************************)
EXTENDS BlockRepair, FiniteSetTheorems, TLAPS

AnyCells == {{}} \cup (UNION {CellsOf[i] : i \in Issues})
Phases == Repairing \cup Single \cup {"final_validation", "finalizing", "failed", "corrupt"}
States == {"none"} \cup Ready \cup {"open", "patch_proposed", "patch_approved"} \cup TerminalIssueStates
AnyAnswer == [kind : {"lost", "invalid", "human", "refused_by_gate", "patch"}, cells : AnyCells]
AnyVerdict == [decision : Decisions \cup {"none"}, role : {"known", "independent", "none"}]

TypeOK ==
    /\ phase \in Phases /\ rounds \in Nat
    /\ kind \in [Issues -> {"rule", "semantic"}] /\ state \in [Issues -> States]
    /\ used \in [Issues -> Nat] /\ retries \in [Issues -> Nat] /\ open \subseteq Issues
    /\ cand \in [Issues -> AnyCells] /\ dirty \subseteq Issues
    /\ verdict \in [Issues -> AnyVerdict] /\ asked \in [Issues -> Nat]
    /\ at \in {"idle", "reserve", "call", "results", "lost", "review", "settle"}
    /\ group \subseteq Issues /\ todo \subseteq group /\ answer \in [Issues -> AnyAnswer]
    /\ carried \subseteq Issues /\ crashes \in Nat /\ resumes \in Nat

(* A candidate edits its own block, and so does an answer.                  *)
OwnCells(i, c) == c = {} \/ c \in CellsOf[i]
InScope == \A i \in Issues : OwnCells(i, cand[i]) /\ OwnCells(i, answer[i].cells)

(* What a place of the worker says of the issues it has.                    *)
Placed ==
    /\ at = "idle" => group = {} /\ todo = {}
    /\ at # "idle" => /\ phase \in Repairing \cup Single
                      /\ group # {} /\ group \subseteq PhaseIssues
                      /\ \A i, j \in group : BlockOf[i] = BlockOf[j]
    /\ at \in {"reserve", "results", "review", "settle"} => todo # {}
    /\ at = "reserve" => \A i \in todo : state[i] \in NeedsWriter
    /\ at = "reserve" => \A i \in group \ todo : state[i] = "awaiting_patch"
    /\ at = "call" => todo = group
    /\ at \in {"call", "results"} => \A i \in todo : state[i] = "awaiting_patch"
    /\ at \in {"review", "settle"} => \A i \in todo : state[i] = "patch_proposed"

(* The first phase leaves the independent reviewer's issues alone: what is
   under way of them was left by a resumed job.                             *)
KnownFirst ==
    /\ \A i \in carried : RoleOf[i] # "known"
    /\ phase = "repairing_known" =>
           \A i \in Issues : state[i] \in Busy /\ RoleOf[i] # "known" => i \in carried

(* While a group is written no other candidate of its block is in flight but
   those, and those of the group are the ones of this call.                 *)
Foreign(j) == phase = "repairing_known" /\ RoleOf[j] # "known"
Writing ==
    at \in {"reserve", "call", "results"} =>
        \A g \in group : \A j \in SameBlock(g) : InFlight(j) =>
            \/ j \notin group /\ Foreign(j)
            \/ j \in group \ todo /\ at = "results" /\ cand[j] = answer[j].cells

(* Two candidates in flight meet only when the one is the known reviewer's and
   the other was carried past it, and only until the first phase is over.   *)
CarriedPast(i, j) == RoleOf[i] = "known" /\ j \in carried
Disjoint ==
    \A i, j \in Issues : i # j /\ InFlight(i) /\ InFlight(j) /\ cand[i] \cap cand[j] # {} =>
        /\ phase \in {"repairing_known", "failed", "corrupt"}
        /\ CarriedPast(i, j) \/ CarriedPast(j, i)

Clean == \A i \in Issues : InFlight(i) /\ i \in dirty => i \in carried

(* The phases that take one issue at a time have one of each block under way. *)
OneAtATime == phase \in Single \/ BatchSize = 1
Both(i, j) == i # j /\ BlockOf[i] = BlockOf[j] /\ state[i] \in Busy /\ state[j] \in Busy
Alone ==
    /\ BatchSize = 1 => \A i, j \in Issues : ~Both(i, j)
    /\ phase \in Single => \A i, j \in Issues : Both(i, j) => SameBlock(i) \cap carried # {}
    /\ at # "idle" /\ OneAtATime =>
           \E k \in Issues : group = {k} /\ \A j \in SameBlock(k) \ {k} : state[j] \notin Busy

IInv ==
    /\ TypeOK /\ InScope /\ Placed /\ KnownFirst /\ Writing /\ Disjoint /\ Clean /\ Alone
    /\ NoneForgotten

-----------------------------------------------------------------------------
(* Numbers.  The library's induction theorems need a predicate as a parameter;
   a least counterexample does as well.                                     *)
LEMMA LeastNumber ==
  ASSUME NEW S \in SUBSET Nat, S # {}
  PROVE  \E n \in S : \A m \in S : n <= m
  <1> DEFINE Less == OpToRel(<, Nat)
  <1>1. IsWellFoundedOn(Less, Nat)  BY NatLessThanWellFounded
  <1>2. \E n \in S : \A m \in S : <<m, n>> \notin Less
    <2> HIDE DEF Less
    <2> QED  BY <1>1, WFMin
  <1>3. PICK n \in S : \A m \in S : <<m, n>> \notin Less  BY <1>2
  <1>4. ASSUME NEW m \in S  PROVE n <= m
    <2>1. <<m, n>> \notin {ss \in Nat \X Nat : ss[1] < ss[2]}  BY <1>3 DEF OpToRel
    <2> QED  BY <2>1
  <1> QED  BY <1>4

LEMMA Induction ==
  ASSUME NEW S \in SUBSET Nat, 0 \in S, \A n \in S : n + 1 \in S
  PROVE  S = Nat
  <1> SUFFICES ASSUME Nat \ S # {} PROVE FALSE  OBVIOUS
  <1>1. PICK n \in Nat \ S : \A m \in Nat \ S : n <= m
    <2> DEFINE T == Nat \ S
    <2>1. T \in SUBSET Nat /\ T # {}  OBVIOUS
    <2>2. \E k \in T : \A m \in T : k <= m
      <3> HIDE DEF T
      <3> QED  BY <2>1, LeastNumber
    <2> QED  BY <2>2
  <1>2. n # 0  OBVIOUS
  <1>3. n - 1 \in Nat /\ n - 1 \in S  BY <1>1, <1>2
  <1>4. (n - 1) + 1 \in S  BY <1>3
  <1>5. (n - 1) + 1 = n  OBVIOUS
  <1> QED  BY <1>4, <1>5

LEMMA OldestIsOne ==
  ASSUME NEW S \in SUBSET Issues, S # {}
  PROVE  Oldest(S) \in S /\ \A j \in S : Oldest(S) <= j
  <1>1. S \in SUBSET Nat
    <2>1. IsFiniteSet(Issues) /\ Issues = 1..Cardinality(Issues)  BY BlockAssumption DEF BlockAssumption
    <2>2. Cardinality(Issues) \in Nat  BY <2>1, FS_CardinalityType
    <2> QED  BY <2>1, <2>2
  <1>2. \E n \in S : \A m \in S : n <= m  BY <1>1, LeastNumber
  <1> QED  BY <1>2 DEF Oldest, Min

(* The recursion of Compatible.                                             *)
N == Cardinality(Issues)
Grow(S, f, n) ==
    IF n = 0 THEN {}
    ELSE LET before == f[n - 1] IN
         IF /\ n \in S /\ Cardinality(before) < BatchSize
            /\ \A j \in before : RowsOf[n] \cap RowsOf[j] = {}
         THEN before \cup {n} ELSE before
Grown(S) == CHOOSE f : f = [n \in 0..N |-> Grow(S, f, n)]

LEMMA CompatibleIsGrown == ASSUME NEW S PROVE Compatible(S) = Grown(S)[N]
  BY DEF Compatible, Grown, Grow, N

LEMMA SizeOfIssues == N \in Nat /\ Issues = 1..N /\ IsFiniteSet(Issues)
  <1>1. IsFiniteSet(Issues) /\ Issues = 1..Cardinality(Issues)
    BY BlockAssumption DEF BlockAssumption
  <1> QED  BY <1>1, FS_CardinalityType DEF N

LEMMA GrownExists ==
  ASSUME NEW S
  PROVE  \A k \in Nat : \E f : f = [n \in 0..k |-> Grow(S, f, n)]
  <1> DEFINE D == {k \in Nat : \E f : f = [n \in 0..k |-> Grow(S, f, n)]}
  <1>1. 0 \in D
    <2> DEFINE f == [n \in 0..0 |-> {}]
    <2>1. \A n \in 0..0 : Grow(S, f, n) = {}  BY DEF Grow
    <2>2. f = [n \in 0..0 |-> Grow(S, f, n)]  BY <2>1
    <2> QED  BY <2>2
  <1>2. ASSUME NEW k \in D PROVE k + 1 \in D
    <2>1. PICK f : f = [n \in 0..k |-> Grow(S, f, n)]  OBVIOUS
    <2> DEFINE g == [n \in 0..(k + 1) |-> IF n <= k THEN f[n] ELSE Grow(S, f, k + 1)]
    <2>2. \A n \in 0..k : g[n] = f[n]  OBVIOUS
    <2>3. ASSUME NEW n \in 0..(k + 1) PROVE g[n] = Grow(S, g, n)
      <3>1. n # 0 => n - 1 \in 0..k /\ g[n - 1] = f[n - 1]  BY <2>2
      <3>2. Grow(S, g, n) = Grow(S, f, n)  BY <3>1 DEF Grow
      <3>3. CASE n <= k
        <4>1. f[n] = Grow(S, f, n)
          <5> HIDE DEF g
          <5> QED  BY <2>1, <3>3
        <4> QED  BY <3>2, <3>3, <4>1
      <3>4. CASE n = k + 1
        <4>1. g[n] = Grow(S, f, k + 1)  BY <3>4
        <4> QED  BY <3>2, <3>4, <4>1
      <3> QED  BY <3>3, <3>4
    <2>4. g = [n \in 0..(k + 1) |-> g[n]]  OBVIOUS
    <2>5. g = [n \in 0..(k + 1) |-> Grow(S, g, n)]
      <3> HIDE DEF g
      <3> QED  BY <2>3, <2>4
    <2>6. \E h : h = [n \in 0..(k + 1) |-> Grow(S, h, n)]
      <3> HIDE DEF g
      <3> QED  BY <2>5
    <2> QED  BY <2>6
  <1>3. D = Nat
    <2>1. D \in SUBSET Nat  OBVIOUS
    <2> HIDE DEF D
    <2> QED  BY <1>1, <1>2, <2>1, Induction
  <1> QED  BY <1>3

LEMMA GrownIsDefined ==
  ASSUME NEW S
  PROVE  Grown(S) = [n \in 0..N |-> Grow(S, Grown(S), n)]
  BY GrownExists, SizeOfIssues DEF Grown

(* The group that may share a call is drawn from the issues offered, and there
   is one as soon as there is an issue.                                     *)
LEMMA CompatibleIsPart ==
  ASSUME NEW S \in SUBSET Issues
  PROVE  /\ Compatible(S) \subseteq S
         /\ S # {} => Compatible(S) # {}
  <1> DEFINE f == Grown(S)
  <1>0. N \in Nat /\ Issues = 1..N  BY SizeOfIssues
  <1>r. f = [n \in 0..N |-> Grow(S, f, n)]  BY GrownIsDefined
  <1>5. Compatible(S) = f[N]  BY CompatibleIsGrown
  <1> HIDE DEF f
  <1>1. \A n \in 0..N : f[n] = Grow(S, f, n)  BY <1>r
  <1>2. f[0] = {}
    <2>1. 0 \in 0..N /\ Grow(S, f, 0) = {}  BY <1>0 DEF Grow
    <2> QED  BY <1>1, <2>1
  <1>3. \A n \in 1..N : f[n] = f[n - 1] \/ (n \in S /\ f[n] = f[n - 1] \cup {n})
    <2> SUFFICES ASSUME NEW n \in 1..N
                 PROVE  f[n] = f[n - 1] \/ (n \in S /\ f[n] = f[n - 1] \cup {n})
      OBVIOUS
    <2>1. f[n] = Grow(S, f, n) /\ n # 0  BY <1>0, <1>1
    <2> QED  BY <2>1 DEF Grow
  <1>4. \A n \in Nat : n <= N => f[n] \subseteq {m \in S : m <= n}
    <2> DEFINE D == {n \in Nat : n <= N => f[n] \subseteq {m \in S : m <= n}}
    <2>1. 0 \in D  BY <1>2
    <2>2. ASSUME NEW n \in D PROVE n + 1 \in D
      <3> SUFFICES ASSUME n + 1 <= N PROVE f[n + 1] \subseteq {m \in S : m <= n + 1}
        OBVIOUS
      <3>1. n + 1 \in 1..N /\ (n + 1) - 1 = n  BY <1>0
      <3>2. f[n] \subseteq {m \in S : m <= n}  BY <1>0
      <3>3. f[n + 1] = f[n] \/ (n + 1 \in S /\ f[n + 1] = f[n] \cup {n + 1})
        BY <1>3, <3>1
      <3>4. \A m \in S : m \in Nat  BY <1>0
      <3> QED  BY <3>2, <3>3, <3>4
    <2>3. D = Nat
      <3>1. D \in SUBSET Nat  OBVIOUS
      <3> HIDE DEF D
      <3> QED  BY <2>1, <2>2, <3>1, Induction
    <2> QED  BY <2>3
  <1>6. ASSUME S # {} PROVE f[N] # {}
    <2>1. PICK m \in S : \A j \in S : m <= j  BY <1>6, OldestIsOne
    <2>2. m \in 1..N /\ m - 1 \in Nat /\ m - 1 <= N  BY <1>0
    <2>3. f[m - 1] = {}
      <3>1. f[m - 1] \subseteq {j \in S : j <= m - 1}  BY <1>4, <2>2
      <3>2. \A j \in S : j \in Nat /\ ~(j <= m - 1)  BY <1>0, <2>1, <2>2
      <3> QED  BY <3>1, <3>2
    <2>4. f[m] = {m}
      <3>1. Cardinality(f[m - 1]) < BatchSize
        BY <2>3, FS_EmptySet, BlockAssumption DEF BlockAssumption
      <3>2. Grow(S, f, m) = f[m - 1] \cup {m}
        BY <2>1, <2>2, <2>3, <3>1 DEF Grow
      <3> QED  BY <1>1, <1>0, <2>2, <2>3, <3>2
    <2> DEFINE D == {n \in Nat : m <= n /\ n <= N => m \in f[n]}
    <2>5. 0 \in D  BY <2>2
    <2>6. ASSUME NEW n \in D PROVE n + 1 \in D
      <3> SUFFICES ASSUME m <= n + 1, n + 1 <= N PROVE m \in f[n + 1]  OBVIOUS
      <3>1. CASE m = n + 1  BY <2>4, <3>1
      <3>2. CASE m # n + 1
        <4>1. m <= n /\ n <= N /\ n + 1 \in 1..N /\ (n + 1) - 1 = n  BY <1>0, <2>2, <3>2
        <4>2. m \in f[n]  BY <4>1
        <4> QED  BY <1>3, <4>1, <4>2
      <3> QED  BY <3>1, <3>2
    <2>7. D = Nat
      <3>1. D \in SUBSET Nat  OBVIOUS
      <3> HIDE DEF D
      <3> QED  BY <2>5, <2>6, <3>1, Induction
    <2> QED  BY <1>0, <2>2, <2>7
  <1>7. f[N] \subseteq S  BY <1>0, <1>4
  <1> QED  BY <1>5, <1>6, <1>7

-----------------------------------------------------------------------------
(* The queues.                                                              *)
LEMMA PhaseIssuesFound ==
  /\ PhaseIssues \subseteq Found /\ Found \subseteq Issues
  /\ phase = "repairing_known" => PhaseIssues = {i \in Found : RoleOf[i] = "known"}
  /\ phase \notin {"repairing_known", "independent_review"} => PhaseIssues = Found
  <1>1. CASE phase = "repairing_known"  BY <1>1 DEF PhaseIssues, Found
  <1>2. CASE phase = "independent_review"  BY <1>2 DEF PhaseIssues, Found
  <1>3. CASE phase \notin {"repairing_known", "independent_review"}
    BY <1>3 DEF PhaseIssues, Found
  <1> QED  BY <1>1, <1>2, <1>3

(* A group is of one block and of the states that were asked for; there is none
   of one issue only when there is no such issue.                           *)
LEMMA GroupMeans ==
  ASSUME NEW states, NEW minimum \in Nat \ {0}
  PROVE  LET G == LiveBlockGroup(states, minimum) IN
         /\ \A i \in G : i \in PhaseIssues /\ state[i] \in states
         /\ \A i, j \in G : BlockOf[i] = BlockOf[j]
         /\ minimum = 1 /\ G = {} =>
                \A i \in PhaseIssues :
                    state[i] \in states => state[i] \in NeedsWriter /\ ~CanAttempt(i)
  <1> DEFINE eligible == {i \in PhaseIssues : /\ state[i] \in states
                                              /\ state[i] \in NeedsWriter => CanAttempt(i)}
             In(b) == {i \in eligible : BlockOf[i] = b}
             enough == {b \in Blocks : Cardinality(Compatible(In(b))) >= minimum}
             first == CHOOSE b \in enough : \A c \in enough : Oldest(In(b)) <= Oldest(In(c))
             G == LiveBlockGroup(states, minimum)
  <1>1. G = IF enough = {} THEN {} ELSE Compatible(In(first))
    BY Zenon DEF LiveBlockGroup
  <1>2. \A b : In(b) \in SUBSET Issues  BY PhaseIssuesFound
  <1>3. \A b \in enough : In(b) # {}
    <2> SUFFICES ASSUME NEW b \in enough, In(b) = {} PROVE FALSE  OBVIOUS
    <2>1. Compatible(In(b)) = {}  BY <1>2, CompatibleIsPart
    <2>2. Cardinality(Compatible(In(b))) = 0  BY <2>1, FS_EmptySet
    <2> QED  BY <2>2
  <1>4. enough # {} => first \in enough
    <2> SUFFICES ASSUME enough # {}
                 PROVE  \E b \in enough : \A c \in enough : Oldest(In(b)) <= Oldest(In(c))
      OBVIOUS
    <2> DEFINE T == {Oldest(In(b)) : b \in enough}
    <2>1. \A b \in enough : Oldest(In(b)) \in Issues
      BY <1>2, <1>3, OldestIsOne
    <2> HIDE DEF In, enough
    <2>2. T \in SUBSET Nat /\ T # {}
      <3>1. Issues \subseteq Nat  BY SizeOfIssues
      <3> QED  BY <2>1, <3>1
    <2>3. \E n \in T : \A m \in T : n <= m
      <3> HIDE DEF T
      <3> QED  BY <2>2, LeastNumber
    <2> QED  BY <2>3
  <1>5. G \subseteq eligible /\ \A i, j \in G : BlockOf[i] = BlockOf[j]
    <2>1. \A b : Compatible(In(b)) \subseteq In(b)  BY <1>2, CompatibleIsPart
    <2>2. In(first) \subseteq eligible /\ \A i, j \in In(first) : BlockOf[i] = BlockOf[j]
      OBVIOUS
    <2> HIDE DEF In, first, G, enough, eligible
    <2> QED  BY <1>1, <2>1, <2>2
  <1>6. ASSUME minimum = 1, G = {}, NEW i \in eligible PROVE FALSE
    <2> DEFINE b == BlockOf[i]
    <2>1. i \in In(b) /\ b \in Blocks  BY PhaseIssuesFound DEF Blocks
    <2>2. \A c : In(c) # {} => Compatible(In(c)) # {}  BY <1>2, CompatibleIsPart
    <2>3. \A c : IsFiniteSet(Compatible(In(c)))
      <3> TAKE c
      <3>1. Compatible(In(c)) \in SUBSET Issues  BY <1>2, CompatibleIsPart
      <3> HIDE DEF In
      <3> QED  BY <3>1, SizeOfIssues, FS_Subset
    <2>4. \A c : In(c) # {} => Cardinality(Compatible(In(c))) >= 1
      <3> SUFFICES ASSUME NEW c, In(c) # {} PROVE Cardinality(Compatible(In(c))) >= 1
        OBVIOUS
      <3> DEFINE K == Compatible(In(c))
      <3>1. IsFiniteSet(K) /\ K # {}  BY <2>2, <2>3
      <3> HIDE DEF K
      <3>2. Cardinality(K) \in Nat /\ Cardinality(K) # 0
        BY <3>1, FS_CardinalityType, FS_EmptySet
      <3>3. Cardinality(K) >= 1  BY <3>2
      <3> QED  BY <3>3 DEF K
    <2>5. b \in enough  BY <1>6, <2>1, <2>4
    <2>6. Compatible(In(first)) # {}
      <3>1. first \in enough  BY <1>4, <2>5
      <3> QED  BY <1>3, <2>2, <3>1
    <2> HIDE DEF In, first, G, enough, eligible
    <2> QED  BY <1>1, <1>6, <2>5, <2>6
  <1>7. minimum = 1 /\ G = {} =>
            \A i \in PhaseIssues :
                state[i] \in states => state[i] \in NeedsWriter /\ ~CanAttempt(i)
    <2> SUFFICES ASSUME minimum = 1, G = {}, NEW i \in PhaseIssues, state[i] \in states,
                        ~(state[i] \in NeedsWriter /\ ~CanAttempt(i))
                 PROVE  FALSE
      OBVIOUS
    <2>1. i \in eligible  OBVIOUS
    <2> QED  BY <1>6, <2>1
  <1> QED  BY <1>5, <1>7

(* A phase is quiet when no candidate of its issues is in flight.           *)
Quiet == \A i \in PhaseIssues : ~InFlight(i)

(* What _repair may take up by itself: the only issue of its block under way, a
   candidate, or anything in a quiet phase.                                 *)
Offered(i) ==
    /\ i \in PhaseIssues
    /\ OneAtATime => \A j \in SameBlock(i) \ {i} : state[j] \notin Busy
    /\ ~OneAtATime => InFlight(i) \/ Quiet

LEMMA InFlightIsBusy ==
  ASSUME NEW i, InFlight(i)
  PROVE  state[i] \in Busy /\ state[i] \in LiveIssueStates /\ state[i] \notin NeedsWriter
  BY DEF InFlight, Busy, LiveIssueStates, NeedsReview, NeedsApply, NeedsWriter

LEMMA NoGroupIsQuiet ==
  ASSUME TypeOK, LiveBlockGroup(NeedsReview, 1) = {}, LiveBlockGroup(NeedsApply, 1) = {}
  PROVE  Quiet
  <1> SUFFICES ASSUME NEW i \in PhaseIssues, InFlight(i) PROVE FALSE  BY DEF Quiet
  <1>1. state[i] \in NeedsReview \/ state[i] \in NeedsApply
    BY DEF InFlight, NeedsReview, NeedsApply
  <1>2. state[i] \in NeedsReview => state[i] \in NeedsWriter  BY GroupMeans
  <1>3. state[i] \in NeedsApply => state[i] \in NeedsWriter  BY GroupMeans
  <1> QED  BY <1>1, <1>2, <1>3, InFlightIsBusy

OfferMeaning(turn) ==
    /\ turn.how \in {"one", "write", "review"}
    /\ turn.how = "one" => \E i \in Issues : turn.who = {i} /\ Offered(i)
    /\ turn.how # "one" =>
           /\ ~OneAtATime /\ turn.who # {} /\ turn.who \subseteq PhaseIssues
           /\ \A i, j \in turn.who : BlockOf[i] = BlockOf[j]
    /\ turn.how = "review" => \A i \in turn.who : state[i] = "patch_proposed"
    /\ turn.how = "write" => Quiet /\ \A i \in turn.who : state[i] \in NeedsWriter

LEMMA FirstIsOffered ==
  ASSUME ~OneAtATime, NEW S, S \subseteq PhaseIssues, S # {},
         Quiet \/ \A i \in S : InFlight(i)
  PROVE  OfferMeaning(Turn("one", First(S)))
  <1> DEFINE i == Oldest(S)
  <1>1. i \in S  BY PhaseIssuesFound, OldestIsOne
  <1>2. i \in Issues /\ Offered(i)  BY <1>1, PhaseIssuesFound DEF Offered
  <1> HIDE DEF i
  <1>3. First(S) = {i}  BY DEF First, i
  <1> QED  BY <1>2, <1>3 DEF OfferMeaning, Turn

LEMMA NextIsOffered ==
  ASSUME OneAtATime \/ Quiet, NEW s \in OneOf(NextIssues)
  PROVE  OfferMeaning(Turn("one", s))
  <1>1. PICK i \in NextIssues : s = {i}  BY DEF OneOf
  <1>2. i \in PhaseIssues /\ i \in Issues  BY PhaseIssuesFound DEF NextIssues, LiveIn
  <1>3. Offered(i)  BY <1>1, <1>2 DEF NextIssues, Offered
  <1> QED  BY <1>1, <1>2, <1>3 DEF OfferMeaning, Turn

LEMMA GroupIsOffered ==
  ASSUME TypeOK, ~OneAtATime, NEW states, NEW how,
         LiveBlockGroup(states, 2) # {},
         \/ how = "review" /\ states = NeedsReview
         \/ how = "write" /\ states = Ready /\ Quiet
  PROVE  OfferMeaning(Turn(how, LiveBlockGroup(states, 2)))
  <1> DEFINE G == LiveBlockGroup(states, 2)
  <1>1. /\ \A i \in G : i \in PhaseIssues /\ state[i] \in states
        /\ \A i, j \in G : BlockOf[i] = BlockOf[j]
    BY GroupMeans
  <1>2. \A i \in G : i \in Issues /\ state[i] \in States  BY <1>1, PhaseIssuesFound DEF TypeOK
  <1> HIDE DEF G
  <1>3. how = "review" => \A i \in G : state[i] = "patch_proposed"
    BY <1>1, <1>2 DEF NeedsReview, States, Ready, TerminalIssueStates
  <1>4. how = "write" => \A i \in G : state[i] \in NeedsWriter
    BY <1>1 DEF Ready, NeedsWriter
  <1>5. G # {}  BY DEF G
  <1> USE DEF OfferMeaning, Turn
  <1>6. OfferMeaning(Turn(how, G))
    BY <1>1, <1>3, <1>4, <1>5
  <1> QED  BY <1>6 DEF G

LEMMA OfferMeans ==
  ASSUME TypeOK, NEW turn \in Offer
  PROVE  OfferMeaning(turn)
  <1>1. CASE OneAtATime
    <2>1. Offer = {Turn("one", s) : s \in OneOf(NextIssues)}  BY <1>1 DEF Offer, OneAtATime
    <2> QED  BY <1>1, <2>1, NextIsOffered
  <1>2. CASE ~OneAtATime
    <2> USE <1>2
    <2>a. ~(phase \in Single \/ BatchSize = 1)  BY DEF OneAtATime
    <2> DEFINE R2 == LiveBlockGroup(NeedsReview, 2)
               R1 == LiveBlockGroup(NeedsReview, 1)
               A1 == LiveBlockGroup(NeedsApply, 1)
               W2 == LiveBlockGroup(Ready, 2)
    <2>b. Offer = IF R2 # {} THEN {Turn("review", R2)}
                  ELSE IF R1 # {} THEN {Turn("one", First(R1))}
                  ELSE IF A1 # {} THEN {Turn("one", First(A1))}
                  ELSE IF W2 # {} THEN {Turn("write", W2)}
                  ELSE IF UnpreparedSiblings # {} THEN {Turn("one", First(UnpreparedSiblings))}
                  ELSE IF InflightSiblings # {} THEN {Turn("one", First(InflightSiblings))}
                  ELSE {Turn("one", s) : s \in OneOf(NextIssues)}
      BY <2>a DEF Offer
    <2>c. \A i \in R1 \cup A1 : i \in PhaseIssues /\ InFlight(i)
      <3>1. \A i \in R1 : i \in PhaseIssues /\ state[i] \in NeedsReview  BY GroupMeans
      <3>2. \A i \in A1 : i \in PhaseIssues /\ state[i] \in NeedsApply  BY GroupMeans
      <3>3. \A i \in R1 \cup A1 : state[i] \in States
        BY <3>1, <3>2, PhaseIssuesFound DEF TypeOK
      <3> HIDE DEF R1, A1
      <3> QED
        BY <3>1, <3>2, <3>3
        DEF InFlight, NeedsReview, NeedsApply, States, Ready, TerminalIssueStates
    <2>d. R1 = {} /\ A1 = {} => Quiet  BY NoGroupIsQuiet
    <2>e. R2 # {} => OfferMeaning(Turn("review", R2))  BY GroupIsOffered
    <2>f. W2 # {} /\ Quiet => OfferMeaning(Turn("write", W2))  BY GroupIsOffered
    <2>g. UnpreparedSiblings \subseteq PhaseIssues /\ InflightSiblings \subseteq PhaseIssues
      BY DEF UnpreparedSiblings, InflightSiblings, LiveIn
    <2> HIDE DEF R1, R2, A1, W2
    <2>1. CASE R2 # {}  BY <2>1, <2>b, <2>e
    <2>2. CASE R2 = {} /\ R1 # {}
      <3>1. OfferMeaning(Turn("one", First(R1)))  BY <2>2, <2>c, FirstIsOffered
      <3> QED  BY <2>2, <2>b, <3>1
    <2>3. CASE R2 = {} /\ R1 = {} /\ A1 # {}
      <3>1. OfferMeaning(Turn("one", First(A1)))  BY <2>3, <2>c, FirstIsOffered
      <3> QED  BY <2>3, <2>b, <3>1
    <2>4. CASE R2 = {} /\ R1 = {} /\ A1 = {}
      <3>1. Quiet  BY <2>4, <2>d
      <3>2. UnpreparedSiblings # {} => OfferMeaning(Turn("one", First(UnpreparedSiblings)))
        BY <2>g, <3>1, FirstIsOffered
      <3>3. InflightSiblings # {} => OfferMeaning(Turn("one", First(InflightSiblings)))
        BY <2>g, <3>1, FirstIsOffered
      <3>4. \A s \in OneOf(NextIssues) : OfferMeaning(Turn("one", s))
        BY <3>1, NextIsOffered
      <3> HIDE DEF Quiet
      <3> QED  BY <2>4, <2>b, <2>f, <3>1, <3>2, <3>3, <3>4, Zenon
    <2> QED  BY <2>1, <2>2, <2>3, <2>4
  <1> QED  BY <1>1, <1>2

(* A phase that offers nothing has nothing in flight and hides nothing but
   behind what is busy elsewhere.                                           *)
LEMMA OfferEmpty ==
  ASSUME TypeOK, Offer = {}
  PROVE  NextIssues = {} /\ (~OneAtATime => Quiet /\ InflightSiblings = {})
  <1>0. {Turn("one", s) : s \in OneOf(NextIssues)} = {} => NextIssues = {}
    BY DEF OneOf
  <1>1. CASE OneAtATime  BY <1>0, <1>1 DEF Offer, OneAtATime
  <1>2. CASE ~OneAtATime
    <2>a. ~(phase \in Single \/ BatchSize = 1)  BY <1>2 DEF OneAtATime
    <2>1. /\ LiveBlockGroup(NeedsReview, 1) = {} /\ LiveBlockGroup(NeedsApply, 1) = {}
          /\ InflightSiblings = {} /\ {Turn("one", s) : s \in OneOf(NextIssues)} = {}
      BY <2>a, Zenon DEF Offer
    <2> QED  BY <1>0, <2>1, NoGroupIsQuiet
  <1> QED  BY <1>1, <1>2

-----------------------------------------------------------------------------
(* Cells that meet are of one block.                                        *)
LEMMA MeetInBlock ==
  ASSUME NEW i \in Issues, NEW j \in Issues, NEW c, NEW d,
         OwnCells(i, c), OwnCells(j, d), c \cap d # {}
  PROVE  BlockOf[i] = BlockOf[j]
  BY BlockAssumption DEF BlockAssumption, OwnCells

LEMMA InitIInv == Init => IInv
  <1> SUFFICES ASSUME Init PROVE IInv  OBVIOUS
  <1>1. TypeOK
    <2>1. state \in [Issues -> States]  BY DEF Init, States
    <2>c. {} \in AnyCells  BY DEF AnyCells
    <2>2. NoAnswer \in AnyAnswer  BY <2>c DEF NoAnswer, AnyAnswer
    <2>3. NoVerdict \in AnyVerdict  BY DEF NoVerdict, AnyVerdict, Decisions
    <2>4. "repairing_known" \in Phases  BY DEF Phases, Repairing
    <2> QED  BY <2>c, <2>1, <2>2, <2>3, <2>4 DEF Init, TypeOK
  <1>2. \A i \in Issues : state[i] \notin Busy /\ ~InFlight(i)
    BY DEF Init, Busy, InFlight
  <1>3. InScope  BY DEF Init, InScope, OwnCells, NoAnswer
  <1> QED
    BY <1>1, <1>2, <1>3
    DEF Init, IInv, Placed, KnownFirst, Writing, Disjoint, Clean, Alone, Both, NoneForgotten

-----------------------------------------------------------------------------
(* One issue by itself.                                                     *)

(* What another issue has in flight beside one that is offered was carried past
   it, or claims other cells.                                               *)
LEMMA OfferedMeets ==
  ASSUME IInv, phase \in Repairing \cup Single,
         NEW i \in Issues, Offered(i), NEW c, OwnCells(i, c),
         ~InFlight(i) \/ c = cand[i],
         NEW j \in Issues, j # i, InFlight(j), cand[j] \cap c # {}
  PROVE  j \in carried
  <1>1. BlockOf[i] = BlockOf[j]  BY MeetInBlock DEF IInv, InScope
  <1>2. j \in SameBlock(i) \ {i} /\ state[j] \in Busy
    BY <1>1, InFlightIsBusy DEF SameBlock
  <1>3. ~OneAtATime  BY <1>2 DEF Offered
  <1>4. CASE ~InFlight(i)
    <2>1. Quiet  BY <1>3, <1>4 DEF Offered
    <2>2. j \in Found /\ j \notin PhaseIssues
      BY <2>1 DEF Quiet, Found, InFlight
    <2>3. phase = "repairing_known" /\ RoleOf[j] # "known"
      BY <1>3, <2>2, PhaseIssuesFound DEF OneAtATime, Repairing, Single
    <2> QED  BY <1>2, <2>3 DEF IInv, KnownFirst
  <1>5. CASE InFlight(i) /\ c = cand[i]
    <2>1. phase = "repairing_known" /\ (CarriedPast(i, j) \/ CarriedPast(j, i))
      BY <1>5 DEF IInv, Disjoint, Repairing, Single
    <2>2. RoleOf[i] = "known"  BY <2>1, PhaseIssuesFound DEF Offered
    <2> QED  BY <2>1, <2>2 DEF CarriedPast, IInv, KnownFirst
  <1> QED  BY <1>4, <1>5

(* An issue that is saved while the worker is between steps.                *)
LEMMA SavedInv ==
  ASSUME IInv, Idle, TypeOK', NEW i \in Issues, NEW s, state' = [state EXCEPT ![i] = s],
         s \in {"patch_proposed", "patch_approved"} => InFlight(i),
         s \in Busy => state[i] \in Busy \/ Offered(i),
         UNCHANGED <<phase, cand, answer, at, group, todo, carried>>,
         \A j \in Issues : InFlight(j)' /\ j \in dirty' => j \in carried
  PROVE  IInv'
  <1>1. at = "idle" /\ phase \in Repairing \cup Single  BY DEF Idle
  <1>2. \A j \in Issues : /\ InFlight(j)' => InFlight(j)
                          /\ j # i => state'[j] = state[j]
                          /\ state'[j] \in Busy => state[j] \in Busy \/ (j = i /\ Offered(i))
    BY DEF IInv, TypeOK, InFlight
  <1>3. InScope' /\ Placed'  BY <1>1 DEF IInv, InScope, Placed, OwnCells
  <1>4. KnownFirst'
    <2>1. Offered(i) /\ phase = "repairing_known" => RoleOf[i] = "known"
      BY PhaseIssuesFound DEF Offered
    <2> QED  BY <1>2, <2>1 DEF IInv, KnownFirst
  <1>5. Writing'  BY <1>1 DEF Writing
  <1>6. Disjoint'  BY <1>2 DEF IInv, Disjoint, CarriedPast
  <1>7. Clean'  BY DEF Clean
  <1>8. Alone'
    <2>1. ASSUME NEW j \in Issues, NEW k \in Issues, Both(j, k)', OneAtATime
          PROVE  Both(j, k)
      <3>1. j # k /\ k \in SameBlock(j) /\ j \in SameBlock(k)  BY <2>1 DEF Both, SameBlock
      <3>2. state[j] \in Busy /\ state[k] \in Busy
        BY <1>2, <2>1, <3>1 DEF Both, Offered
      <3> QED  BY <2>1, <3>2 DEF Both
    <2>2. OneAtATime' = OneAtATime /\ at' = "idle"  BY <1>1 DEF OneAtATime
    <2> QED  BY <2>1, <2>2 DEF IInv, Alone, OneAtATime, SameBlock
  <1>9. NoneForgotten'  BY <1>1 DEF NoneForgotten, Repairing, Single
  <1> QED  BY <1>3, <1>4, <1>5, <1>6, <1>7, <1>8, <1>9 DEF IInv

LEMMA SameDirt ==
  ASSUME IInv, NEW i, NEW s, state' = [state EXCEPT ![i] = s],
         s \in {"patch_proposed", "patch_approved"} => InFlight(i), UNCHANGED <<dirty, carried>>
  PROVE  \A j \in Issues : InFlight(j)' /\ j \in dirty' => j \in carried
  <1>1. \A j \in Issues : InFlight(j)' => InFlight(j)  BY DEF IInv, TypeOK, InFlight
  <1> QED  BY <1>1 DEF IInv, Clean

(* An edit of the workbook makes no candidate stale but what was carried.   *)
LEMMA EditDirt ==
  ASSUME IInv, Idle, NEW i \in Issues, Offered(i), NEW c, OwnCells(i, c),
         ~InFlight(i) \/ c = cand[i],
         state' = [state EXCEPT ![i] = "accepted"], Written(i, c), UNCHANGED carried
  PROVE  \A j \in Issues : InFlight(j)' /\ j \in dirty' => j \in carried
  <1> SUFFICES ASSUME NEW j \in Issues, InFlight(j)', j \in dirty' PROVE j \in carried
    OBVIOUS
  <1>1. j # i /\ InFlight(j)  BY DEF IInv, TypeOK, InFlight
  <1>2. j \in dirty \/ cand[j] \cap c # {}  BY <1>1 DEF Written
  <1>3. CASE j \in dirty  BY <1>1, <1>3 DEF IInv, Clean
  <1>4. CASE cand[j] \cap c # {}  BY <1>1, <1>4, OfferedMeets DEF Idle
  <1> QED  BY <1>2, <1>3, <1>4

LEMMA DecisionStates ==
  ASSUME NEW i, NEW d
  PROVE  /\ Decided(i, d) \in {"patch_approved", "revision_requested", "needs_human_review"}
         /\ Decided(i, d) \in States
  BY DEF Decided, States, Ready, TerminalIssueStates

LEMMA MoveTypes ==
  ASSUME TypeOK, NEW i \in Issues, NEW s \in States, SaveOnly(i, s),
         UNCHANGED <<phase, rounds, cand, at, group, todo, answer, carried, crashes, resumes>>,
         dirty' \subseteq Issues, verdict' \in [Issues -> AnyVerdict],
         asked' \in [Issues -> Nat]
  PROVE  TypeOK'
  BY DEF TypeOK, SaveOnly, Move

LEMMA AdvanceInv ==
  ASSUME IInv, Idle, NEW i \in Issues, Offered(i),
         \/ CloseUnrepaired(i) \/ Exhausted(i) \/ MarkReady(i)
         \/ \E cells \in CellsOf[i] : MechanicalRepair(i, cells)
         \/ \E d \in Decisions : ReviewOne(i, d)
         \/ ApplyOne(i)
  PROVE  IInv'
  <1> USE DEF candidates, worker, history
  <1>t. TypeOK  BY DEF IInv
  <1>s. {"superseded", "unconfirmed", "needs_human_review", "awaiting_patch", "accepted"} \subseteq States
    BY DEF States, Ready, TerminalIssueStates
  <1>b. {"superseded", "unconfirmed", "needs_human_review", "accepted", "revision_requested"} \cap Busy = {}
    BY DEF Busy
  <1>1. CASE CloseUnrepaired(i) \/ Exhausted(i) \/ MarkReady(i)
    <2>1. PICK s \in {"superseded", "unconfirmed", "needs_human_review", "awaiting_patch"} :
             SaveOnly(i, s)
      BY <1>1 DEF CloseUnrepaired, Exhausted, MarkReady
    <2>2. UNCHANGED <<phase, rounds, cand, dirty, verdict, asked, at, group, todo, answer,
                      carried, crashes, resumes>>
      BY <1>1 DEF CloseUnrepaired, Exhausted, MarkReady
    <2>3. TypeOK'
      <3>1. dirty' \subseteq Issues /\ verdict' \in [Issues -> AnyVerdict] /\ asked' \in [Issues -> Nat]
        BY <2>2 DEF IInv, TypeOK
      <3> QED  BY <1>t, <1>s, <2>1, <2>2, <3>1, MoveTypes
    <2>4. state' = [state EXCEPT ![i] = s]  BY <2>1 DEF SaveOnly, Move
    <2>5. \A j \in Issues : InFlight(j)' /\ j \in dirty' => j \in carried
      BY <2>2, <2>4, SameDirt
    <2> QED  BY <2>2, <2>3, <2>4, <2>5, SavedInv
  <1>2. ASSUME NEW c, OwnCells(i, c), MechanicalRepair(i, c) \/ (ApplyOne(i) /\ c = cand[i])
        PROVE  IInv'
    <2>1. /\ SaveOnly(i, "accepted") /\ Written(i, c)
          /\ UNCHANGED <<phase, rounds, cand, verdict, asked, at, group, todo, answer,
                         carried, crashes, resumes>>
      BY <1>2 DEF MechanicalRepair, ApplyOne
    <2>2. ~InFlight(i) \/ c = cand[i]  BY <1>2 DEF MechanicalRepair, InFlight
    <2>3. TypeOK'
      <3>1. dirty' \subseteq Issues /\ verdict' \in [Issues -> AnyVerdict] /\ asked' \in [Issues -> Nat]
        BY <2>1 DEF IInv, TypeOK, Written
      <3> QED  BY <1>t, <1>s, <2>1, <3>1, MoveTypes
    <2>4. state' = [state EXCEPT ![i] = "accepted"]  BY <2>1 DEF SaveOnly, Move
    <2>5. \A j \in Issues : InFlight(j)' /\ j \in dirty' => j \in carried
      BY <1>2, <2>1, <2>2, <2>4, EditDirt
    <2> QED  BY <1>b, <2>1, <2>3, <2>4, <2>5, SavedInv
  <1>3. CASE \E cells \in CellsOf[i] : MechanicalRepair(i, cells)
    BY <1>2, <1>3 DEF OwnCells
  <1>4. CASE ApplyOne(i)  BY <1>2, <1>4 DEF IInv, InScope
  <1>5. ASSUME NEW d \in Decisions, ReviewOne(i, d) PROVE IInv'
    <2> DEFINE s == Decided(i, d)
    <2>1. /\ SaveOnly(i, s) /\ state[i] = "patch_proposed"
          /\ UNCHANGED <<phase, rounds, cand, dirty, at, group, todo, answer,
                         carried, crashes, resumes>>
      BY <1>5 DEF ReviewOne
    <2>2. s \in {"patch_approved", "revision_requested", "needs_human_review"} /\ s \in States
      BY DecisionStates
    <2>3. InFlight(i) /\ state[i] \in Busy  BY <2>1 DEF InFlight, Busy
    <2>4. TypeOK'
      <3>1. RoleOf[i] \in {"known", "independent"}  BY BlockAssumption DEF BlockAssumption
      <3>2. [decision |-> d, role |-> RoleOf[i]] \in AnyVerdict  BY <3>1 DEF AnyVerdict
      <3>3. dirty' \subseteq Issues /\ verdict' \in [Issues -> AnyVerdict] /\ asked' \in [Issues -> Nat]
        BY <1>5, <2>1, <3>2 DEF IInv, TypeOK, ReviewOne
      <3> HIDE DEF s
      <3> QED  BY <1>t, <2>1, <2>2, <3>3, MoveTypes
    <2>5. state' = [state EXCEPT ![i] = s]  BY <2>1 DEF SaveOnly, Move
    <2> HIDE DEF s
    <2>6. \A j \in Issues : InFlight(j)' /\ j \in dirty' => j \in carried
      BY <2>1, <2>3, <2>5, SameDirt
    <2> QED  BY <2>1, <2>2, <2>3, <2>4, <2>5, <2>6, SavedInv
  <1> QED  BY <1>1, <1>3, <1>4, <1>5

LEMMA OpenIssueInv ==
  ASSUME IInv, NEW i \in Issues, OpenIssue(i)
  PROVE  IInv'
  <1>1. /\ at = "idle" /\ phase \in Single /\ SaveOnly(i, "open")
        /\ UNCHANGED <<phase, rounds, cand, dirty, verdict, asked, at, group, todo, answer,
                       carried, crashes, resumes>>
    BY DEF OpenIssue, candidates, worker, history
  <1>2. "open" \in States /\ "open" \notin Busy /\ TypeOK  BY DEF States, Busy, IInv
  <1>3. TypeOK'
    <2>1. dirty' \subseteq Issues /\ verdict' \in [Issues -> AnyVerdict] /\ asked' \in [Issues -> Nat]
      BY <1>1 DEF IInv, TypeOK
    <2> QED  BY <1>1, <1>2, <2>1, MoveTypes
  <1>4. state' = [state EXCEPT ![i] = "open"]  BY <1>1 DEF SaveOnly, Move
  <1>5. \A j \in Issues : InFlight(j)' /\ j \in dirty' => j \in carried
    BY <1>1, <1>4, SameDirt
  <1> QED  BY <1>1, <1>2, <1>3, <1>4, <1>5, SavedInv DEF Idle

-----------------------------------------------------------------------------
(* The coordinated calls.                                                   *)

(* A group may be written when its issues await a patch and the phase is quiet,
   or nothing else of the block is busy.                                    *)
Writable(S) ==
    /\ S # {} /\ S \subseteq PhaseIssues /\ \A i, j \in S : BlockOf[i] = BlockOf[j]
    /\ \A i \in S : state[i] \in NeedsWriter
    /\ OneAtATime => \E k \in Issues : S = {k} /\ \A j \in SameBlock(k) \ {k} : state[j] \notin Busy
    /\ ~OneAtATime => Quiet

LEMMA BeginWriteInv ==
  ASSUME IInv, Idle, NEW S, Writable(S), BeginWrite(S)
  PROVE  IInv'
  <1>1. /\ at' = "reserve" /\ group' = S /\ todo' = S /\ answer' = answer
        /\ UNCHANGED <<phase, rounds, kind, state, used, retries, open, cand, dirty, verdict, asked,
                       carried, crashes, resumes>>
    BY DEF BeginWrite, Begin, queue, candidates, history
  <1>2. phase \in Repairing \cup Single  BY DEF Idle
  <1>3. S \subseteq Issues  BY PhaseIssuesFound DEF Writable
  <1>4. TypeOK'  BY <1>1, <1>3 DEF IInv, TypeOK
  <1>5. InScope' /\ KnownFirst' /\ Disjoint' /\ Clean'
    BY <1>1 DEF IInv, InScope, OwnCells, KnownFirst, Disjoint, CarriedPast, Clean, InFlight
  <1>6. PhaseIssues' = PhaseIssues  BY <1>1 DEF PhaseIssues, Found
  <1>7. Placed'  BY <1>1, <1>2, <1>6 DEF Placed, Writable
  <1>8. Writing'
    <2> SUFFICES ASSUME NEW g \in S, NEW j \in SameBlock(g), InFlight(j)
                 PROVE  j \notin S /\ Foreign(j)
      BY <1>1 DEF Writing, SameBlock, InFlight, Foreign
    <2>1. j \in Issues /\ j \notin S  BY InFlightIsBusy DEF SameBlock, Writable
    <2>2. ~OneAtATime  BY <2>1, InFlightIsBusy DEF Writable, SameBlock
    <2>3. j \in Found /\ j \notin PhaseIssues
      BY <2>1, <2>2 DEF Writable, Quiet, Found, InFlight
    <2> QED
      BY <1>2, <2>1, <2>2, <2>3, PhaseIssuesFound
      DEF OneAtATime, Repairing, Single, Foreign
  <1>9. Alone'
    BY <1>1 DEF IInv, Alone, Writable, Both, OneAtATime, SameBlock
  <1>10. NoneForgotten'  BY <1>1, <1>2 DEF NoneForgotten, Repairing, Single
  <1> QED  BY <1>4, <1>5, <1>7, <1>8, <1>9, <1>10 DEF IInv

(* Inside a step that calls: what the group's phase and block are.          *)
LEMMA WorkingFacts ==
  ASSUME IInv, at # "idle"
  PROVE  /\ phase \in Repairing \cup Single /\ phase \notin {"failed", "corrupt", "final_validation"}
         /\ group # {} /\ group \subseteq Issues /\ todo \subseteq group
         /\ phase = "repairing_known" => \A i \in group : RoleOf[i] = "known"
         /\ \A i, j \in group : BlockOf[i] = BlockOf[j]
         /\ at \in {"reserve", "results", "review", "settle"} =>
                Oldest(todo) \in todo /\ Oldest(todo) \in Issues
  <1>1. at \in {"reserve", "results", "review", "settle"} => Oldest(todo) \in todo
    BY OldestIsOne DEF IInv, TypeOK, Placed
  <1>2. phase = "repairing_known" => \A i \in group : RoleOf[i] = "known"
    BY PhaseIssuesFound DEF IInv, Placed
  <1> QED  BY <1>1, <1>2 DEF IInv, TypeOK, Placed, Repairing, Single

(* An issue of the group is saved; the rest of the worker stays as it is or
   rests.                                                                   *)
LEMMA GroupSaved ==
  ASSUME IInv, at # "idle", NEW i \in group, NEW s, s # "none", state' = [state EXCEPT ![i] = s],
         UNCHANGED <<phase, carried>>
  PROVE  /\ KnownFirst'
         /\ Found \subseteq Found' /\ PhaseIssues \subseteq PhaseIssues'
         /\ (group' = group \/ at' = "idle") => Alone'
         /\ NoneForgotten'
  <1>1. \A j \in Issues : j # i => state'[j] = state[j]  BY DEF IInv, TypeOK
  <1>2. state'[i] = s /\ i \in Issues  BY WorkingFacts DEF IInv, TypeOK
  <1>3. KnownFirst'  BY <1>1, <1>2, WorkingFacts DEF IInv, KnownFirst
  <1>4. Found \subseteq Found'  BY <1>1, <1>2 DEF Found
  <1>5. PhaseIssues \subseteq PhaseIssues'  BY <1>4 DEF PhaseIssues
  <1>6. ASSUME group' = group \/ at' = "idle" PROVE Alone'
    <2>1. ASSUME OneAtATime, NEW j \in Issues, NEW k \in Issues, Both(j, k)' PROVE Both(j, k)
      <3>1. PICK g \in Issues : group = {g} /\ \A m \in SameBlock(g) \ {g} : state[m] \notin Busy
        BY <2>1 DEF IInv, Alone
      <3>2. g = i  BY <3>1
      <3>3. j # k /\ k \in SameBlock(j) /\ j \in SameBlock(k) /\ BlockOf[j] = BlockOf[k]
        BY <2>1 DEF Both, SameBlock
      <3>4. j # i /\ k # i  BY <1>1, <2>1, <3>1, <3>2, <3>3 DEF Both
      <3> QED  BY <1>1, <2>1, <3>4 DEF Both
    <2>2. OneAtATime' = OneAtATime  BY DEF OneAtATime
    <2>3. ASSUME at' # "idle", OneAtATime
          PROVE  \E k \in Issues : group' = {k} /\ \A j \in SameBlock(k) \ {k} : state'[j] \notin Busy
      <3>1. PICK g \in Issues : group = {g} /\ \A m \in SameBlock(g) \ {g} : state[m] \notin Busy
        BY <2>3 DEF IInv, Alone
      <3>2. \A m \in SameBlock(g) \ {g} : state'[m] = state[m]  BY <1>1, <3>1 DEF SameBlock
      <3> QED  BY <1>6, <2>3, <3>1, <3>2
    <2>4. \A j : SameBlock(j)' = SameBlock(j)  BY DEF SameBlock
    <2> QED  BY <2>1, <2>2, <2>3, <2>4 DEF IInv, Alone, OneAtATime
  <1>7. NoneForgotten'  BY WorkingFacts DEF NoneForgotten
  <1> QED  BY <1>3, <1>4, <1>5, <1>6, <1>7

LEMMA ReserveInv == ASSUME IInv, Reserve PROVE IInv'
  <1>1. PICK i : i = Oldest(todo) /\ at = "reserve" /\ i \in todo /\ i \in Issues /\ i \in group
    BY WorkingFacts DEF Reserve
  <1>2. /\ used' = [used EXCEPT ![i] = @ + 1] /\ state' = [state EXCEPT ![i] = "awaiting_patch"]
        /\ open' = open \cup {i} /\ group' = group /\ answer' = answer
        /\ UNCHANGED <<phase, rounds, kind, retries, cand, dirty, verdict, asked, carried, crashes, resumes>>
        /\ \/ todo = {i} /\ at' = "call" /\ todo' = group
           \/ todo # {i} /\ todo' = todo \ {i} /\ at' = at
    BY <1>1 DEF Reserve, Move, candidates, history
  <1>3. TypeOK'
    <2>1. "awaiting_patch" \in States  BY DEF States, Ready
    <2> QED  BY <1>1, <1>2, <2>1 DEF IInv, TypeOK
  <1>4. /\ KnownFirst' /\ Alone' /\ NoneForgotten' /\ PhaseIssues \subseteq PhaseIssues'
    BY <1>1, <1>2, GroupSaved
  <1>d. DOMAIN state = Issues  BY DEF IInv, TypeOK
  <1>5. state'[i] = "awaiting_patch" /\ \A j \in Issues : j # i => state'[j] = state[j]
    BY <1>1, <1>2, <1>d
  <1>f. ~InFlight(i)' /\ \A j \in Issues : InFlight(j)' => j # i /\ InFlight(j)
    BY <1>5 DEF InFlight
  <1>6. Placed'  BY <1>1, <1>2, <1>4, <1>5, WorkingFacts DEF IInv, TypeOK, Placed
  <1>7. InScope' /\ Disjoint' /\ Clean'
    BY <1>2, <1>f DEF IInv, InScope, OwnCells, Disjoint, CarriedPast, Clean
  <1>8. Writing'
    <2> SUFFICES ASSUME NEW g \in group, NEW j \in SameBlock(g), InFlight(j)', at' = "reserve" \/ at' = "call"
                 PROVE  j \notin group /\ Foreign(j)
      BY <1>1, <1>2 DEF Writing, SameBlock, Foreign
    <2>1. j \in Issues /\ InFlight(j)  BY <1>f DEF SameBlock
    <2> QED  BY <1>1, <2>1 DEF IInv, Writing
  <1> QED  BY <1>3, <1>4, <1>6, <1>7, <1>8 DEF IInv

LEMMA AnswerScope ==
  ASSUME NEW i \in Issues, NEW a \in Answers(i)
  PROVE  a \in AnyAnswer /\ OwnCells(i, a.cells) /\ a # NoAnswer
  <1>1. {} \in AnyCells /\ \A c \in CellsOf[i] : c \in AnyCells  BY DEF AnyCells
  <1> QED  BY <1>1 DEF Answers, Invalid, AnyAnswer, OwnCells, NoAnswer

LEMMA WriterCallsInv == ASSUME IInv, WriterCalls PROVE IInv'
  <1>1. PICK f : CallWriter(f) /\ f \in [Issues -> AnyAnswer] /\ \A i \in Issues : OwnCells(i, f[i].cells)
    <2>0. NoAnswer \in AnyAnswer /\ \A i : OwnCells(i, NoAnswer.cells)
      BY DEF NoAnswer, AnyAnswer, AnyCells, OwnCells
    <2>1. CASE CallWriter([i \in Issues |-> NoAnswer])  BY <2>0, <2>1
    <2>2. ASSUME NEW f \in [group -> UNION {Answers(i) : i \in group}],
                 \A i \in group : f[i] \in Answers(i),
                 CallWriter([i \in Issues |-> IF i \in group THEN f[i] ELSE NoAnswer])
          PROVE  \E h : CallWriter(h) /\ h \in [Issues -> AnyAnswer]
                        /\ \A i \in Issues : OwnCells(i, h[i].cells)
      <3> DEFINE h == [i \in Issues |-> IF i \in group THEN f[i] ELSE NoAnswer]
      <3>1. \A i \in Issues : h[i] \in AnyAnswer /\ OwnCells(i, h[i].cells)
        BY <2>0, <2>2, AnswerScope
      <3>2. h \in [Issues -> AnyAnswer]  BY <3>1
      <3> HIDE DEF h
      <3>3. CallWriter(h)  BY <2>2 DEF h
      <3> QED  BY <3>1, <3>2, <3>3
    <2> QED  BY <2>1, <2>2 DEF WriterCalls
  <1>2. /\ at = "call" /\ answer' = f /\ at' = "results"
        /\ UNCHANGED <<phase, rounds, kind, state, used, retries, open, cand, dirty, verdict, asked,
                       group, todo, carried, crashes, resumes>>
    BY <1>1 DEF CallWriter, queue, candidates, history
  <1>3. TypeOK' /\ InScope'  BY <1>1, <1>2 DEF IInv, TypeOK, InScope, OwnCells
  <1>4. KnownFirst' /\ Disjoint' /\ Clean' /\ Alone' /\ NoneForgotten'
    BY <1>2 DEF IInv, KnownFirst, Disjoint, CarriedPast, Clean, InFlight, Alone, Both, OneAtATime,
                SameBlock, NoneForgotten, LiveIn
  <1>5. Placed'  BY <1>2 DEF IInv, Placed, PhaseIssues, Found
  <1>6. Writing'  BY <1>2 DEF IInv, Writing, SameBlock, InFlight, Foreign
  <1> QED  BY <1>3, <1>4, <1>5, <1>6 DEF IInv

LEMMA SettleLostInv == ASSUME IInv, SettleLost PROVE IInv'
  <1>1. PICK i : i = Oldest(todo) /\ at = "results" /\ i \in todo /\ i \in Issues /\ i \in group
    BY WorkingFacts DEF SettleLost
  <1>2. /\ open' = open \ {i} /\ Refund(i) /\ group' = group /\ answer' = answer
        /\ UNCHANGED <<phase, rounds, kind, state, cand, dirty, verdict, asked, carried, crashes, resumes>>
        /\ todo' = todo \ {i} /\ at' = (IF todo = {i} THEN "lost" ELSE at)
    BY <1>1 DEF SettleLost, candidates, history
  <1>3. used' \in [Issues -> Nat] /\ retries' \in [Issues -> Nat]
    BY <1>1, <1>2 DEF IInv, TypeOK, Refund, Refunded
  <1>4. TypeOK'  BY <1>1, <1>2, <1>3 DEF IInv, TypeOK
  <1>5. InScope' /\ KnownFirst' /\ Disjoint' /\ Clean' /\ Alone' /\ NoneForgotten'
    BY <1>1, <1>2 DEF IInv, InScope, OwnCells, KnownFirst, Disjoint, CarriedPast, Clean, InFlight, Alone, Both,
                OneAtATime, SameBlock, NoneForgotten, LiveIn
  <1>6. Placed'  BY <1>1, <1>2 DEF IInv, TypeOK, Placed, PhaseIssues, Found
  <1>7. Writing'  BY <1>1, <1>2 DEF IInv, Writing, SameBlock, InFlight, Foreign
  <1> QED  BY <1>4, <1>5, <1>6, <1>7 DEF IInv

(* The result of one issue.  Its proposal meets no sibling's of the same call,
   and every other candidate of the block in flight was carried past it.    *)
LEMMA SettleAnswerInv == ASSUME IInv, SettleAnswer PROVE IInv'
  <1>1. PICK i : i = Oldest(todo) /\ at = "results" /\ i \in todo /\ i \in Issues /\ i \in group
    BY WorkingFacts DEF SettleAnswer
  <1>2. PICK proposed \in BOOLEAN :
          /\ proposed => ~Overlapping(i)
          /\ open' = open \ {i}
          /\ \E s \in {"needs_human_review", "patch_proposed", "revision_requested"} :
                state' = [state EXCEPT ![i] = s] /\ (s = "patch_proposed" <=> proposed)
          /\ \/ /\ proposed
                /\ cand' = [cand EXCEPT ![i] = answer[i].cells]
                /\ verdict' = [verdict EXCEPT ![i] = NoVerdict]
                /\ asked' = [asked EXCEPT ![i] = 0] /\ dirty' = dirty \ {i}
             \/ ~proposed /\ UNCHANGED <<cand, dirty, verdict, asked>>
          /\ \/ todo # {i} /\ todo' = todo \ {i} /\ UNCHANGED <<at, group, answer>>
             \/ todo = {i} /\ Rest
          /\ UNCHANGED <<phase, rounds, kind, used, retries, carried, crashes, resumes>>
    <2> DEFINE p == answer[i].kind = "patch" /\ ~Overlapping(i)
    <2>1. CASE p
      <3>1. state' = [state EXCEPT ![i] = "patch_proposed"]
        BY <1>1, <2>1 DEF SettleAnswer, Move
      <3> QED  BY <1>1, <2>1, <3>1 DEF SettleAnswer, Move, history
    <2>2. CASE ~p
      <3>1. \E s \in {"needs_human_review", "revision_requested"} : state' = [state EXCEPT ![i] = s]
        <4>1. CASE answer[i].kind = "human"
          BY <1>1, <4>1 DEF SettleAnswer, Move
        <4>2. CASE answer[i].kind # "human" /\ CanAttempt(i)
          BY <1>1, <2>2, <4>2 DEF SettleAnswer, Move
        <4>3. CASE answer[i].kind # "human" /\ ~CanAttempt(i)
          BY <1>1, <2>2, <4>3 DEF SettleAnswer, Move
        <4> QED  BY <4>1, <4>2, <4>3
      <3>2. /\ UNCHANGED <<cand, dirty, verdict, asked>> /\ open' = open \ {i}
            /\ \/ todo # {i} /\ todo' = todo \ {i} /\ UNCHANGED <<at, group, answer>>
               \/ todo = {i} /\ Rest
            /\ UNCHANGED <<phase, rounds, kind, used, retries, carried, crashes, resumes>>
        BY <1>1, <2>2 DEF SettleAnswer, Move, candidates, history
      <3> HIDE DEF p
      <3> QED  BY <2>2, <3>1, <3>2
    <2> QED  BY <2>1, <2>2
  <1>3. PICK s \in {"needs_human_review", "patch_proposed", "revision_requested"} :
          state' = [state EXCEPT ![i] = s] /\ (s = "patch_proposed" <=> proposed)
    BY <1>2
  <1>r. Rest <=> /\ at' = "idle" /\ group' = {} /\ todo' = {}
                 /\ answer' = [j \in Issues |-> NoAnswer]
    BY DEF Rest
  <1>4. DOMAIN state = Issues /\ DOMAIN cand = Issues /\ answer[i].cells \in AnyCells
    BY <1>1 DEF IInv, TypeOK, AnyAnswer
  <1>5. /\ state'[i] = s /\ \A j \in Issues : j # i => state'[j] = state[j]
        /\ \A j \in Issues : j # i => cand'[j] = cand[j]
        /\ proposed => cand'[i] = answer[i].cells
    BY <1>1, <1>2, <1>3, <1>4
  <1>6. \A j \in Issues : InFlight(j)' => IF j = i THEN proposed ELSE InFlight(j)
    BY <1>3, <1>5 DEF InFlight
  <1>7. TypeOK'
    <2>1. s \in States  BY DEF States, Ready, TerminalIssueStates
    <2>2. NoVerdict \in AnyVerdict /\ NoAnswer \in AnyAnswer
      BY DEF NoVerdict, AnyVerdict, NoAnswer, AnyAnswer, AnyCells
    <2> QED  BY <1>1, <1>2, <1>3, <1>4, <1>r, <2>1, <2>2 DEF IInv, TypeOK
  <1>8. /\ KnownFirst' /\ Alone' /\ NoneForgotten' /\ PhaseIssues \subseteq PhaseIssues'
    BY <1>1, <1>2, <1>3, <1>r, GroupSaved
  <1>9. InScope'
    <2>1. \A j : OwnCells(j, NoAnswer.cells)  BY DEF OwnCells, NoAnswer
    <2>2. \A j \in Issues : OwnCells(j, answer'[j].cells)
      BY <1>2, <1>r, <2>1 DEF IInv, InScope
    <2>3. \A j \in Issues : OwnCells(j, cand'[j])
      BY <1>1, <1>2, <1>5 DEF IInv, InScope
    <2> QED  BY <2>2, <2>3 DEF InScope, OwnCells
  <1>10. Placed'
    <2>1. CASE todo = {i} /\ Rest  BY <1>r, <2>1 DEF Placed
    <2>2. CASE todo # {i} /\ todo' = todo \ {i} /\ UNCHANGED <<at, group, answer>>
      BY <1>1, <1>2, <1>5, <1>8, <2>2, WorkingFacts DEF IInv, TypeOK, Placed
    <2> QED  BY <1>2, <2>1, <2>2
  <1>11. Writing'
    <2> SUFFICES ASSUME todo # {i}, todo' = todo \ {i}, UNCHANGED <<at, group, answer>>,
                        NEW g \in group, NEW j \in SameBlock(g), InFlight(j)'
                 PROVE  \/ j \notin group /\ Foreign(j)
                        \/ j \in group \ todo' /\ cand'[j] = answer[j].cells
      BY <1>1, <1>2, <1>r DEF Writing, SameBlock, Foreign
    <2>1. j \in Issues  BY DEF SameBlock
    <2>2. CASE j = i  BY <1>1, <1>5, <1>6, <2>1, <2>2
    <2>3. CASE j # i
      BY <1>1, <1>5, <1>6, <2>1, <2>3 DEF IInv, Writing
    <2> QED  BY <2>2, <2>3
  <1>12. ASSUME proposed, NEW j \in Issues, j # i, InFlight(j), cand[j] \cap answer[i].cells # {}
         PROVE  phase = "repairing_known" /\ CarriedPast(i, j)
    <2>1. BlockOf[i] = BlockOf[j]  BY <1>1, <1>12, MeetInBlock DEF IInv, InScope
    <2>2. j \in SameBlock(i)  BY <2>1 DEF SameBlock
    <2>3. \/ j \notin group /\ Foreign(j)
          \/ j \in group /\ cand[j] = answer[j].cells
      BY <1>1, <1>12, <2>2 DEF IInv, Writing
    <2>4. ~(j \in group /\ cand[j] = answer[j].cells)
      BY <1>2, <1>12 DEF Overlapping
    <2>5. Foreign(j) /\ state[j] \in Busy  BY <1>12, <2>3, <2>4, InFlightIsBusy
    <2> QED
      BY <1>1, <2>5, WorkingFacts DEF Foreign, CarriedPast, IInv, KnownFirst
  <1>13. Disjoint'
    <2> SUFFICES ASSUME NEW j \in Issues, NEW k \in Issues, j # k, InFlight(j)', InFlight(k)',
                        cand'[j] \cap cand'[k] # {}
                 PROVE  /\ phase \in {"repairing_known", "failed", "corrupt"}
                        /\ CarriedPast(j, k) \/ CarriedPast(k, j)
      BY <1>2 DEF Disjoint, CarriedPast
    <2>1. CASE j = i  BY <1>5, <1>6, <1>12, <2>1
    <2>2. CASE k = i  BY <1>5, <1>6, <1>12, <2>2
    <2>3. CASE j # i /\ k # i  BY <1>5, <1>6, <2>3 DEF IInv, Disjoint
    <2> QED  BY <2>1, <2>2, <2>3
  <1>14. Clean'
    <2> SUFFICES ASSUME NEW j \in Issues, InFlight(j)', j \in dirty' PROVE j \in carried
      BY <1>2 DEF Clean
    <2>1. j # i /\ j \in dirty  BY <1>2, <1>6
    <2> QED  BY <1>6, <2>1 DEF IInv, Clean
  <1> QED  BY <1>7, <1>8, <1>9, <1>10, <1>11, <1>13, <1>14 DEF IInv

(* Nothing but the worker's place, the books of the attempts and the phase
   changes, and the worker rests.                                           *)
LEMMA RestInv ==
  ASSUME IInv, TypeOK', Rest, UNCHANGED <<state, cand, dirty, carried>>,
         phase' = phase \/ phase' \in {"failed", "corrupt"}, phase \in Repairing \cup Single
  PROVE  IInv'
  <1>1. at' = "idle" /\ group' = {} /\ todo' = {} /\ answer' = [i \in Issues |-> NoAnswer]
    BY DEF Rest
  <1>2. InScope'  BY <1>1 DEF IInv, InScope, OwnCells, NoAnswer
  <1>3. KnownFirst' /\ Disjoint' /\ Clean' /\ Alone'
    BY <1>1 DEF IInv, KnownFirst, Disjoint, CarriedPast, Clean, InFlight, Alone, Both, OneAtATime,
                SameBlock, Single
  <1>4. Placed' /\ Writing'  BY <1>1 DEF Placed, Writing
  <1>5. NoneForgotten'  BY DEF NoneForgotten, Repairing, Single
  <1> QED  BY <1>2, <1>3, <1>4, <1>5 DEF IInv

LEMMA NoAnswersType == [i \in Issues |-> NoAnswer] \in [Issues -> AnyAnswer]
  BY DEF NoAnswer, AnyAnswer, AnyCells

LEMMA ProviderFailedInv == ASSUME IInv, ProviderFailed PROVE IInv'
  <1>1. /\ at = "lost" /\ phase' \in {phase, "failed"} /\ Rest
        /\ UNCHANGED <<rounds, kind, state, used, retries, open, cand, dirty, verdict, asked,
                       carried, crashes, resumes>>
    BY DEF ProviderFailed, queue, candidates, history
  <1>2. TypeOK'  BY <1>1, NoAnswersType DEF IInv, TypeOK, Rest, Phases
  <1> QED  BY <1>1, <1>2, RestInv, WorkingFacts

LEMMA CorruptInv == ASSUME IInv, Idle, NEW i \in Issues, NeitherBeforeNorAfter(i) PROVE IInv'
  <1>1. /\ phase' = "corrupt" /\ Rest
        /\ UNCHANGED <<rounds, kind, state, used, retries, open, cand, dirty, verdict, asked,
                       carried, crashes, resumes>>
    BY DEF NeitherBeforeNorAfter, Corrupt, queue, candidates, history
  <1>2. TypeOK'  BY <1>1, NoAnswersType DEF IInv, TypeOK, Rest, Phases
  <1> QED  BY <1>1, <1>2, RestInv DEF Idle

LEMMA CrashInv == ASSUME IInv, Crash PROVE IInv'
  <1>1. /\ at # "idle" /\ Rest
        /\ UNCHANGED <<phase, rounds, kind, state, cand, dirty, verdict, asked, carried, resumes>>
    BY DEF Crash, candidates
  <1>2. used' \in [Issues -> Nat] /\ retries' \in [Issues -> Nat] /\ open' = {} /\ crashes' \in Nat
    BY DEF IInv, TypeOK, Crash, Refunded
  <1>3. TypeOK'  BY <1>1, <1>2, NoAnswersType DEF IInv, TypeOK, Rest
  <1> QED  BY <1>1, <1>3, RestInv, WorkingFacts

LEMMA BeginReviewInv ==
  ASSUME IInv, Idle, ~OneAtATime, NEW S, S # {}, S \subseteq PhaseIssues,
         \A i, j \in S : BlockOf[i] = BlockOf[j], \A i \in S : state[i] = "patch_proposed",
         BeginReview(S)
  PROVE  IInv'
  <1>1. /\ at' = "review" /\ group' = S /\ todo' = S /\ answer' = answer
        /\ UNCHANGED <<phase, rounds, kind, state, used, retries, open, cand, dirty, verdict, asked,
                       carried, crashes, resumes>>
    BY DEF BeginReview, Begin, queue, candidates, history
  <1>2. S \subseteq Issues  BY PhaseIssuesFound
  <1>3. TypeOK'  BY <1>1, <1>2 DEF IInv, TypeOK
  <1>4. InScope' /\ KnownFirst' /\ Disjoint' /\ Clean'
    BY <1>1 DEF IInv, InScope, OwnCells, KnownFirst, Disjoint, CarriedPast, Clean, InFlight
  <1>5. Alone'  BY <1>1 DEF IInv, Alone, Both, OneAtATime, SameBlock
  <1>6. Placed'  BY <1>1 DEF Placed, PhaseIssues, Found, Idle
  <1>7. Writing' /\ NoneForgotten'
    BY <1>1 DEF Writing, NoneForgotten, Idle, Repairing, Single
  <1> QED  BY <1>3, <1>4, <1>5, <1>6, <1>7 DEF IInv

LEMMA JudgeBatchInv == ASSUME IInv, NEW ds \in BatchDecisions, JudgeBatch(ds) PROVE IInv'
  <1>1. /\ at = "review" /\ at' = "settle"
        /\ UNCHANGED <<phase, rounds, kind, state, used, retries, open, cand, dirty, group, todo, answer,
                       carried, crashes, resumes>>
    BY DEF JudgeBatch, queue, history
  <1>2. verdict' \in [Issues -> AnyVerdict] /\ asked' \in [Issues -> Nat]
    <2>1. CASE \A i \in group : Cached(i)
      BY <2>1 DEF JudgeBatch, IInv, TypeOK
    <2>2. CASE ~(\A i \in group : Cached(i))
      <3>1. InsertVerdicts(ds)  BY <2>2 DEF JudgeBatch
      <3>2. Oldest(group) \in Issues  BY <1>1, WorkingFacts, OldestIsOne
      <3>3. BatchRole \in {"known", "independent"}
        BY <3>2, BlockAssumption DEF BatchRole, BlockAssumption
      <3>4. \A i \in group : [decision |-> ds[i], role |-> BatchRole] \in AnyVerdict
        BY <3>3 DEF BatchDecisions, AnyVerdict
      <3> QED  BY <3>1, <3>4 DEF InsertVerdicts, IInv, TypeOK
    <2> QED  BY <2>1, <2>2
  <1>3. TypeOK'  BY <1>1, <1>2 DEF IInv, TypeOK
  <1>4. InScope' /\ KnownFirst' /\ Disjoint' /\ Clean' /\ Alone' /\ NoneForgotten'
    BY <1>1 DEF IInv, InScope, OwnCells, KnownFirst, Disjoint, CarriedPast, Clean, InFlight, Alone, Both,
                OneAtATime, SameBlock, NoneForgotten, LiveIn
  <1>5. Placed' /\ Writing'  BY <1>1 DEF IInv, Placed, PhaseIssues, Found, Writing
  <1> QED  BY <1>3, <1>4, <1>5 DEF IInv

LEMMA SettleVerdictInv == ASSUME IInv, SettleVerdict PROVE IInv'
  <1>1. PICK i : i = Oldest(todo) /\ at = "settle" /\ i \in todo /\ i \in Issues /\ i \in group
    BY WorkingFacts DEF SettleVerdict
  <1>2. PICK s : s = Decided(i, verdict[i].decision)  OBVIOUS
  <1>3. /\ state' = [state EXCEPT ![i] = s]
        /\ UNCHANGED <<phase, rounds, kind, used, retries, open, cand, dirty, verdict, asked,
                       carried, crashes, resumes>>
        /\ \/ todo # {i} /\ todo' = todo \ {i} /\ UNCHANGED <<at, group, answer>>
           \/ todo = {i} /\ Rest
    BY <1>1, <1>2 DEF SettleVerdict, SaveOnly, Move, candidates, history
  <1>4. s \in {"patch_approved", "revision_requested", "needs_human_review"} /\ s \in States
    BY <1>2, DecisionStates
  <1>r. Rest <=> /\ at' = "idle" /\ group' = {} /\ todo' = {}
                 /\ answer' = [j \in Issues |-> NoAnswer]
    BY DEF Rest
  <1>5. DOMAIN state = Issues /\ state[i] = "patch_proposed"  BY <1>1 DEF IInv, TypeOK, Placed
  <1>6. state'[i] = s /\ \A j \in Issues : j # i => state'[j] = state[j]
    BY <1>1, <1>3, <1>5
  <1>7. \A j \in Issues : InFlight(j)' => InFlight(j)  BY <1>5, <1>6 DEF InFlight
  <1>8. TypeOK'
    BY <1>1, <1>3, <1>4, <1>r, NoAnswersType DEF IInv, TypeOK
  <1>9. /\ KnownFirst' /\ Alone' /\ NoneForgotten' /\ PhaseIssues \subseteq PhaseIssues'
    BY <1>1, <1>3, <1>4, <1>r, GroupSaved
  <1>10. InScope'  BY <1>3, <1>r DEF IInv, InScope, OwnCells, NoAnswer
  <1>11. Disjoint' /\ Clean'  BY <1>3, <1>7 DEF IInv, Disjoint, CarriedPast, Clean
  <1>12. Placed'
    <2>1. CASE todo = {i} /\ Rest  BY <1>r, <2>1 DEF Placed
    <2>2. CASE todo # {i} /\ todo' = todo \ {i} /\ UNCHANGED <<at, group, answer>>
      BY <1>1, <1>3, <1>6, <1>9, <2>2, WorkingFacts DEF IInv, TypeOK, Placed
    <2> QED  BY <1>3, <2>1, <2>2
  <1>13. Writing'  BY <1>1, <1>3, <1>r DEF Writing
  <1> QED  BY <1>8, <1>9, <1>10, <1>11, <1>12, <1>13 DEF IInv

-----------------------------------------------------------------------------
(* The job around it.                                                       *)

(* A phase that repairs ends with nothing of its own in flight, and with at
   most one issue of a block under way unless a candidate was carried there. *)
LEMMA DrainedPhase ==
  ASSUME IInv, phase \in Repairing \cup Single, Offer = {}
  PROVE  /\ \A i, j \in Issues : i # j /\ InFlight(i) /\ InFlight(j) => cand[i] \cap cand[j] = {}
         /\ \A i, j \in Issues : Both(i, j) => SameBlock(i) \cap carried # {}
  <1>1. CASE OneAtATime
    <2>1. ASSUME NEW i \in Issues, NEW j \in Issues, i # j, InFlight(i), InFlight(j),
                 cand[i] \cap cand[j] # {}
          PROVE  FALSE
      <3>1. phase = "repairing_known"  BY <2>1 DEF IInv, Disjoint, Repairing, Single
      <3>2. BatchSize = 1  BY <1>1, <3>1 DEF OneAtATime, Single
      <3>3. BlockOf[i] = BlockOf[j]  BY <2>1, MeetInBlock DEF IInv, InScope
      <3>4. Both(i, j)  BY <2>1, <3>3, InFlightIsBusy DEF Both
      <3> QED  BY <3>2, <3>4 DEF IInv, Alone
    <2>2. \A i, j \in Issues : Both(i, j) => SameBlock(i) \cap carried # {}
      BY <1>1 DEF OneAtATime, IInv, Alone
    <2> QED  BY <2>1, <2>2
  <1>2. CASE ~OneAtATime
    <2>1. Quiet /\ InflightSiblings = {}  BY <1>2, OfferEmpty DEF IInv
    <2>2. \A i \in Issues : state[i] \in Busy => i \in Found /\ state[i] \in LiveIssueStates
      BY DEF Busy, Found, LiveIssueStates, NeedsWriter, NeedsReview, NeedsApply
    <2>3. \A i \in Issues : state[i] \in Busy /\ i \notin PhaseIssues =>
              phase = "repairing_known" /\ RoleOf[i] # "known" /\ i \in carried
      <3> SUFFICES ASSUME NEW i \in Issues, state[i] \in Busy, i \notin PhaseIssues
                   PROVE  phase = "repairing_known" /\ RoleOf[i] # "known" /\ i \in carried
        OBVIOUS
      <3>1. phase = "repairing_known" /\ RoleOf[i] # "known"
        BY <1>2, <2>2, PhaseIssuesFound DEF OneAtATime, Repairing, Single
      <3> QED  BY <3>1 DEF IInv, KnownFirst
    <2>4. ASSUME NEW i \in Issues, NEW j \in Issues, i # j, InFlight(i), InFlight(j),
                 cand[i] \cap cand[j] # {}
          PROVE  FALSE
      <3>1. CarriedPast(i, j) \/ CarriedPast(j, i)  BY <2>4 DEF IInv, Disjoint
      <3>2. i \notin PhaseIssues /\ j \notin PhaseIssues  BY <2>1, <2>4 DEF Quiet
      <3>3. RoleOf[i] # "known" /\ RoleOf[j] # "known"
        BY <2>3, <2>4, <3>2, InFlightIsBusy
      <3> QED  BY <3>1, <3>3 DEF CarriedPast
    <2>5. ASSUME NEW i \in Issues, NEW j \in Issues, Both(i, j)
          PROVE  SameBlock(i) \cap carried # {}
      <3>1. i # j /\ i \in SameBlock(i) /\ j \in SameBlock(i) /\ state[i] \in Busy /\ state[j] \in Busy
        BY <2>5 DEF Both, SameBlock
      <3>2. i \in PhaseIssues /\ j \in PhaseIssues => i \in InflightSiblings
        BY <2>2, <3>1 DEF InflightSiblings, LiveIn
      <3> QED  BY <2>1, <2>3, <3>1, <3>2
    <2> QED  BY <2>4, <2>5
  <1> QED  BY <1>1, <1>2

LEMMA PhaseDrainedInv == ASSUME IInv, PhaseDrained PROVE IInv'
  <1>1. /\ at = "idle" /\ phase \in Repairing \cup Single /\ Offer = {} /\ phase' = NextPhase(phase)
        /\ UNCHANGED <<rounds, kind, state, used, retries, open, cand, dirty, verdict, asked,
                       at, group, todo, answer, carried, crashes, resumes>>
    BY DEF PhaseDrained, Idle, queue, candidates, worker, history
  <1>2. /\ phase' \in Single \cup {"final_validation"}
        /\ phase' = "final_validation" => phase = "final_semantic"
    BY <1>1 DEF NextPhase, Repairing, Single
  <1>3. /\ \A i, j \in Issues : i # j /\ InFlight(i) /\ InFlight(j) => cand[i] \cap cand[j] = {}
        /\ \A i, j \in Issues : Both(i, j) => SameBlock(i) \cap carried # {}
    BY <1>1, DrainedPhase
  <1>4. TypeOK'  BY <1>1, <1>2 DEF IInv, TypeOK, Phases
  <1>5. InScope' /\ Clean'  BY <1>1 DEF IInv, InScope, OwnCells, Clean, InFlight
  <1>6. KnownFirst'  BY <1>1, <1>2 DEF IInv, KnownFirst, Single
  <1>7. Placed' /\ Writing'  BY <1>1 DEF IInv, Placed, Writing
  <1>8. Disjoint'  BY <1>1, <1>3 DEF Disjoint, InFlight
  <1>9. Alone'  BY <1>1, <1>3 DEF IInv, Alone, Both, SameBlock
  <1>10. NoneForgotten'
    <2> SUFFICES ASSUME phase = "final_semantic", NEW i \in Issues, state[i] \in LiveIssueStates
                 PROVE  SameBlock(i) \cap carried # {}
      BY <1>1, <1>2 DEF NoneForgotten, LiveIn, SameBlock
    <2>1. NextIssues = {}  BY <1>1, OfferEmpty DEF IInv
    <2>2. PhaseIssues = Found  BY PhaseIssuesFound
    <2>3. \A k \in Issues : state[k] \in LiveIssueStates =>
              \E j \in SameBlock(k) \ {k} : state[j] \in Busy
      <3> SUFFICES ASSUME NEW k \in Issues, state[k] \in LiveIssueStates
                   PROVE  \E j \in SameBlock(k) \ {k} : state[j] \in Busy
        OBVIOUS
      <3>1. k \in LiveIn(PhaseIssues)
        BY <2>2 DEF LiveIn, Found, LiveIssueStates, NeedsWriter, NeedsReview, NeedsApply
      <3> QED  BY <2>1, <3>1 DEF NextIssues
    <2>4. PICK j \in SameBlock(i) \ {i} : state[j] \in Busy  BY <2>3
    <2>5. j \in Issues /\ state[j] \in LiveIssueStates /\ BlockOf[j] = BlockOf[i]
      BY <2>4 DEF SameBlock, Busy, LiveIssueStates, NeedsWriter, NeedsReview, NeedsApply
    <2>6. PICK k \in SameBlock(j) \ {j} : state[k] \in Busy  BY <2>3, <2>5
    <2>7. Both(j, k) /\ k \in Issues  BY <2>4, <2>5, <2>6 DEF Both, SameBlock
    <2>8. SameBlock(j) \cap carried # {}  BY <1>3, <2>5, <2>7
    <2> QED  BY <2>5, <2>8 DEF SameBlock
  <1> QED  BY <1>4, <1>5, <1>6, <1>7, <1>8, <1>9, <1>10 DEF IInv

LEMMA FailInv == ASSUME IInv, Fail PROVE IInv'
  <1>1. /\ at = "idle" /\ phase' = "failed"
        /\ UNCHANGED <<rounds, kind, state, used, retries, open, cand, dirty, verdict, asked,
                       at, group, todo, answer, carried, crashes, resumes>>
    BY DEF Fail, Idle, queue, candidates, worker, history
  <1>2. TypeOK' /\ InScope'  BY <1>1 DEF IInv, TypeOK, Phases, InScope, OwnCells
  <1>3. KnownFirst' /\ Disjoint' /\ Clean' /\ Alone' /\ NoneForgotten'
    BY <1>1 DEF IInv, KnownFirst, Disjoint, CarriedPast, Clean, InFlight, Alone, Both, OneAtATime,
                SameBlock, Single, NoneForgotten
  <1>4. Placed' /\ Writing'  BY <1>1 DEF IInv, Placed, Writing
  <1> QED  BY <1>2, <1>3, <1>4 DEF IInv

LEMMA ResumeInv == ASSUME IInv, Resume PROVE IInv'
  <1>1. /\ phase = "failed" /\ phase' = "repairing_known" /\ resumes' = resumes + 1
        /\ carried' = carried \cup {i \in Issues : state[i] \in Busy /\ RoleOf[i] # "known"}
        /\ UNCHANGED <<rounds, kind, state, used, retries, open, cand, dirty, verdict, asked,
                       at, group, todo, answer, crashes>>
    BY DEF Resume, queue, candidates, worker
  <1>2. at = "idle"  BY <1>1 DEF IInv, Placed, Repairing, Single
  <1>3. TypeOK' /\ InScope'
    BY <1>1 DEF IInv, TypeOK, Phases, Repairing, InScope, OwnCells
  <1>4. KnownFirst'  BY <1>1 DEF IInv, KnownFirst
  <1>5. Disjoint' /\ Clean'
    BY <1>1 DEF IInv, Disjoint, CarriedPast, Clean, InFlight
  <1>6. Alone'  BY <1>1, <1>2 DEF IInv, Alone, Both, Single
  <1>7. Placed' /\ Writing' /\ NoneForgotten'
    BY <1>1, <1>2 DEF IInv, Placed, Writing, NoneForgotten
  <1> QED  BY <1>3, <1>4, <1>5, <1>6, <1>7 DEF IInv

LEMMA ValidateInv == ASSUME IInv, NEW again \in SUBSET Issues, Validate(again) PROVE IInv'
  <1>1. /\ at = "idle" /\ phase = "final_validation" /\ rounds' = rounds + 1
        /\ phase' \in {"repairing_validation", "finalizing"}
        /\ UNCHANGED <<kind, used, retries, open, cand, dirty, verdict, asked,
                       at, group, todo, answer, carried, crashes, resumes>>
    BY DEF Validate, candidates, worker, history
  <1>2. /\ \A i \in again : state[i] \in {"none", "accepted", "superseded"}
        /\ state' = [i \in Issues |-> IF i \notin again THEN state[i]
                                      ELSE IF state[i] = "none" THEN "open" ELSE Reopened(i)]
    BY DEF Validate
  <1>3. \A i : Reopened(i) \in {"revision_requested", "needs_human_review"}  BY DEF Reopened
  <1>4. /\ state' \in [Issues -> States]
        /\ \A i \in Issues : /\ InFlight(i)' <=> InFlight(i)
                             /\ state'[i] \in Busy <=> state[i] \in Busy
    <2>1. \A i \in Issues : i \in again =>
              state'[i] \in {"open", "revision_requested", "needs_human_review"}
      BY <1>2, <1>3
    <2>2. \A i \in Issues : i \notin again => state'[i] = state[i]  BY <1>2
    <2>3. \A i \in Issues : state'[i] \in States
      BY <2>1, <2>2 DEF IInv, TypeOK, States, Ready, TerminalIssueStates
    <2>4. state' \in [Issues -> States]
      <3>1. DOMAIN state' = Issues /\ state' = [i \in Issues |-> state'[i]]  BY <1>2
      <3> QED  BY <2>3, <3>1
    <2> QED  BY <1>2, <2>1, <2>2, <2>4 DEF InFlight, Busy
  <1>5. TypeOK'
    BY <1>1, <1>4 DEF IInv, TypeOK, Phases, Repairing
  <1>6. InScope' /\ Clean'  BY <1>1, <1>4 DEF IInv, InScope, OwnCells, Clean
  <1>7. KnownFirst' /\ NoneForgotten'
    BY <1>1 DEF IInv, KnownFirst, NoneForgotten
  <1>8. Disjoint'  BY <1>1, <1>4 DEF IInv, Disjoint
  <1>9. Alone'  BY <1>1, <1>4 DEF IInv, Alone, Both, Single
  <1>10. Placed' /\ Writing'  BY <1>1 DEF IInv, Placed, Writing
  <1> QED  BY <1>5, <1>6, <1>7, <1>8, <1>9, <1>10 DEF IInv

LEMMA StutterInv == ASSUME IInv, UNCHANGED vars PROVE IInv'
  <1>1. UNCHANGED <<phase, rounds, kind, state, used, retries, open, cand, dirty, verdict, asked,
                    at, group, todo, answer, carried, crashes, resumes>>
    BY DEF vars, queue, candidates, worker, history
  <1>2. TypeOK' /\ InScope' /\ KnownFirst'
    BY <1>1 DEF IInv, TypeOK, InScope, OwnCells, KnownFirst
  <1>3. Placed' /\ Writing'
    BY <1>1 DEF IInv, Placed, PhaseIssues, Found, Writing, SameBlock, InFlight, Foreign
  <1>4. Disjoint' /\ Clean' /\ Alone' /\ NoneForgotten'
    BY <1>1 DEF IInv, Disjoint, CarriedPast, Clean, InFlight, Alone, Both, OneAtATime,
                SameBlock, NoneForgotten, LiveIn
  <1> QED  BY <1>2, <1>3, <1>4 DEF IInv

LEMMA RepairStepInv == ASSUME IInv, RepairStep PROVE IInv'
  <1>1. PICK turn \in Offer :
           \/ turn.how = "one" /\ \E i \in turn.who : Advance(i)
           \/ turn.how = "write" /\ BeginWrite(turn.who)
           \/ turn.how = "review" /\ BeginReview(turn.who)
    BY DEF RepairStep
  <1>2. Idle /\ OfferMeaning(turn)  BY OfferMeans DEF RepairStep, IInv
  <1>3. CASE turn.how = "one" /\ \E i \in turn.who : Advance(i)
    <2>1. PICK i \in Issues : Offered(i) /\ Advance(i)  BY <1>2, <1>3 DEF OfferMeaning
    <2>2. CASE BeginWriteOne(i)
      <3>1. state[i] \in NeedsWriter /\ BeginWrite({i})  BY <2>2 DEF BeginWriteOne
      <3>2. ~InFlight(i)  BY <3>1, InFlightIsBusy
      <3>3. Writable({i})  BY <2>1, <3>1, <3>2 DEF Writable, Offered
      <3> QED  BY <1>2, <3>1, <3>3, BeginWriteInv
    <2>3. CASE ~BeginWriteOne(i)
      BY <1>2, <2>1, <2>3, AdvanceInv, CorruptInv DEF Advance
    <2> QED  BY <2>2, <2>3
  <1>4. CASE turn.how = "write" /\ BeginWrite(turn.who)
    <2>1. Writable(turn.who)  BY <1>2, <1>4 DEF OfferMeaning, Writable
    <2> QED  BY <1>2, <1>4, <2>1, BeginWriteInv
  <1>5. CASE turn.how = "review" /\ BeginReview(turn.who)
    BY <1>2, <1>5, BeginReviewInv DEF OfferMeaning
  <1> QED  BY <1>1, <1>3, <1>4, <1>5

LEMMA StepIInv == IInv /\ [Next]_vars => IInv'
  <1> SUFFICES ASSUME IInv, [Next]_vars PROVE IInv'  OBVIOUS
  <1>1. CASE RepairStep  BY <1>1, RepairStepInv
  <1>2. CASE WriteStep
    BY <1>2, ReserveInv, WriterCallsInv, SettleLostInv, SettleAnswerInv, ProviderFailedInv
    DEF WriteStep
  <1>3. CASE ReviewStep  BY <1>3, JudgeBatchInv, SettleVerdictInv DEF ReviewStep
  <1>4. CASE JobStep  BY <1>4, PhaseDrainedInv, ResumeInv, ValidateInv DEF JobStep
  <1>5. CASE \E i \in Issues : OpenIssue(i)  BY <1>5, OpenIssueInv
  <1>6. CASE Crash \/ Fail  BY <1>6, CrashInv, FailInv
  <1>7. CASE UNCHANGED vars  BY <1>7, StutterInv
  <1> QED  BY <1>1, <1>2, <1>3, <1>4, <1>5, <1>6, <1>7 DEF Next

(* The inductive invariant of repairing one block's issues together holds in
   every reachable state, through crashes, failures and resumes
   (council.py: _write_batch, _review_batch).                               *)
THEOREM Invariance == Spec => []IInv
  BY InitIInv, StepIInv, PTL DEF Spec

-----------------------------------------------------------------------------
(* The tables, the worker's place and its group keep their types.           *)
THEOREM TypeCorrect == Spec => []TypeOK
  <1>1. IInv => TypeOK  BY DEF IInv
  <1> QED  BY Invariance, <1>1, PTL

(* persistence.py:782, with its exception: whatever was written, reviewed in
   groups, lost, refunded or cut short by a crash, no candidate in flight lost
   a cell to an edit and no two claim one, but for candidates that a resumed
   job carried past the known reviewer's issues.                            *)
THEOREM CandidatesSafe == Spec => []CandidatesStandAlone
  <1>1. IInv => CandidatesStandAlone
    BY DEF IInv, Clean, Disjoint, CarriedPast, CandidatesStandAlone
  <1> QED  BY Invariance, <1>1, PTL

(* The order of _repair and the queue predicate leave no issue behind: what is
   live when the phases that repair are over shares its block with a carried
   candidate.                                                               *)
THEOREM NoneLeftBehind == Spec => []NoneForgotten
  <1>1. IInv => NoneForgotten  BY DEF IInv
  <1> QED  BY Invariance, <1>1, PTL
=============================================================================
