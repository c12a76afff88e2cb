----------------------------- MODULE RollupProofs -----------------------------
(* What the folds of Rollup compute, for every atlas and every list of parts.  The  *)
(* induction they need is over the subsets of a finite set, by a least              *)
(* counterexample: FS_StrictSubsetOrderingWellFounded and WFMin speak of sets and   *)
(* relations only, where the induction theorems of the library take a predicate.    *)
EXTENDS Rollup, TLAPS, FiniteSetTheorems, WellFoundedInduction

(* Among bad subsets of a finite set there is a least one. *)
LEMMA SmallestBad ==
    ASSUME NEW S, IsFiniteSet(S), NEW Bad \in SUBSET SUBSET S, Bad # {}
    PROVE  \E s \in Bad : \A t \in Bad : t \subseteq s => t = s
<1>1. FiniteSubsetsOf(S) = SUBSET S
  BY FS_FiniteSubsetsOfFinite
<1>2. IsWellFoundedOn(StrictSubsetOrdering(S), SUBSET S)
  BY <1>1, FS_StrictSubsetOrderingWellFounded
<1>3. PICK s \in Bad : \A t \in Bad : ~ (<<t, s>> \in StrictSubsetOrdering(S))
  BY <1>2, WFMin
<1> QED
  BY <1>3 DEF StrictSubsetOrdering

(* A fold picks the next element of a set by a rule of its own. *)
Picks(pick, S) == \A s \in SUBSET S : s # {} => pick[s] \in s

(* Induction over the sets a fold passes through: what holds of the empty set, and   *)
(* of a set when it holds without the element picked next, holds of every subset.   *)
LEMMA FoldInduction ==
    ASSUME NEW S, IsFiniteSet(S), NEW pick, Picks(pick, S), NEW Good, {} \in Good,
           \A s \in SUBSET S : s # {} /\ s \ {pick[s]} \in Good => s \in Good
    PROVE  \A s \in SUBSET S : s \in Good
<1> DEFINE Bad == {s \in SUBSET S : s \notin Good}
<1> SUFFICES ASSUME Bad # {} PROVE FALSE
  OBVIOUS
<1>1. PICK s \in Bad : \A t \in Bad : t \subseteq s => t = s
  <2>1. Bad \in SUBSET SUBSET S
    OBVIOUS
  <2> HIDE DEF Bad
  <2> QED
    BY <2>1, SmallestBad
<1>2. s \in SUBSET S /\ s # {}
  OBVIOUS
<1>3. pick[s] \in s
  BY <1>2 DEF Picks
<1>4. s \ {pick[s]} \in SUBSET S /\ s \ {pick[s]} \subseteq s /\ s \ {pick[s]} # s
  BY <1>2, <1>3
<1>5. s \ {pick[s]} \in Good
  BY <1>1, <1>4
<1> QED
  BY <1>2, <1>5

(* g[s] is the fold over s, for every subset s of S. *)
FoldsTo(g, S, base, pick, step) ==
    g = [s \in SUBSET S |-> IF s = {} THEN base ELSE step[pick[s]][g[s \ {pick[s]}]]]

(* The fold over a set does not depend on the set it is a part of. *)
LEMMA FoldAgrees ==
    ASSUME NEW S, NEW T \in SUBSET S, NEW U \in SUBSET S,
           NEW base, NEW pick, NEW step, NEW g, NEW h, IsFiniteSet(S), Picks(pick, S),
           FoldsTo(g, T, base, pick, step), FoldsTo(h, U, base, pick, step)
    PROVE  \A s \in SUBSET S : s \subseteq T /\ s \subseteq U => g[s] = h[s]
<1> DEFINE Good == {s \in SUBSET S : s \subseteq T /\ s \subseteq U => g[s] = h[s]}
<1>1. {} \in Good
  BY DEF FoldsTo
<1>2. ASSUME NEW s \in SUBSET S, s # {}, s \ {pick[s]} \in Good, s \subseteq T, s \subseteq U
      PROVE  g[s] = h[s]
  <2> DEFINE t == s \ {pick[s]}
  <2>1. t \in SUBSET T /\ t \in SUBSET U /\ g[t] = h[t]
    BY <1>2
  <2>2. g[s] = step[pick[s]][g[t]] /\ h[s] = step[pick[s]][h[t]]
    BY <1>2 DEF FoldsTo
  <2> QED
    BY <2>1, <2>2
<1>3. \A s \in SUBSET S : s # {} /\ s \ {pick[s]} \in Good => s \in Good
  BY <1>2
<1> HIDE DEF Good
<1>4. \A s \in SUBSET S : s \in Good
  BY <1>1, <1>3, FoldInduction
<1> QED
  BY <1>4 DEF Good

(* The function a fold is defined by exists, *)
LEMMA FoldExists ==
    ASSUME NEW S, IsFiniteSet(S), NEW base, NEW pick, NEW step, Picks(pick, S)
    PROVE  \E g : FoldsTo(g, S, base, pick, step)
<1> DEFINE Folds(g, T) == FoldsTo(g, T, base, pick, step)
           Bad == {T \in SUBSET S : ~ \E g : Folds(g, T)}
<1> SUFFICES ASSUME Bad # {} PROVE FALSE
  OBVIOUS
<1>1. PICK T \in Bad : \A t \in Bad : t \subseteq T => t = T
  <2>1. Bad \in SUBSET SUBSET S
    OBVIOUS
  <2> HIDE DEF Bad
  <2> QED
    BY <2>1, SmallestBad
<1> DEFINE sub(t) == CHOOSE h : Folds(h, t)
           g == [s \in SUBSET T |->
                   IF s = {} THEN base
                   ELSE step[pick[s]][sub(s \ {pick[s]})[s \ {pick[s]}]]]
<1>2. \A t \in SUBSET T : t # T => Folds(sub(t), t)
  <2> SUFFICES ASSUME NEW t \in SUBSET T, t # T PROVE \E h : Folds(h, t)
    OBVIOUS
  <2>1. t \notin Bad
    BY <1>1
  <2> QED
    BY <2>1
<1> HIDE DEF Folds
<1>3. \A s \in SUBSET T : s # {} => pick[s] \in s
  BY DEF Picks
<1>4. ASSUME NEW s \in SUBSET T, s # T PROVE g[s] = sub(s)[s]
  <2>1. Folds(sub(s), s)
    BY <1>2, <1>4
  <2>2. CASE s = {}
    BY <2>1, <2>2 DEF Folds, FoldsTo
  <2>3. CASE s # {}
    <3> DEFINE t == s \ {pick[s]}
    <3>1. t \in SUBSET T /\ t # T /\ t \subseteq s
      BY <1>3, <1>4, <2>3
    <3>2. Folds(sub(t), t)
      BY <1>2, <3>1
    <3>3. sub(t)[t] = sub(s)[t]
      <4> DEFINE gs == sub(s)
                 gt == sub(t)
      <4>1. FoldsTo(gs, s, base, pick, step) /\ FoldsTo(gt, t, base, pick, step)
        BY <2>1, <3>2 DEF Folds
      <4>2. t \in SUBSET S /\ s \in SUBSET S /\ t \subseteq t /\ t \subseteq s
        BY <3>1
      <4> HIDE DEF gs, gt, t
      <4>3. gt[t] = gs[t]
        BY <4>1, <4>2, FoldAgrees
      <4> QED
        BY <4>3 DEF gs, gt
    <3>4. sub(s)[s] = step[pick[s]][sub(s)[t]]
      <4> HIDE DEF sub
      <4> QED
        BY <2>1, <2>3 DEF Folds, FoldsTo
    <3>5. g[s] = step[pick[s]][sub(t)[t]]
      BY <2>3
    <3> QED
      BY <3>3, <3>4, <3>5
  <2> QED
    BY <2>2, <2>3
<1>5. ASSUME NEW s \in SUBSET T, s # {}
      PROVE  g[s] = step[pick[s]][g[s \ {pick[s]}]]
  <2> DEFINE t == s \ {pick[s]}
  <2>1. t \in SUBSET T /\ t # T
    BY <1>3, <1>5
  <2>2. g[t] = sub(t)[t]
    BY <1>4, <2>1
  <2> QED
    BY <1>5, <2>2
<1>6. Folds(g, T)
  <2>1. g = [s \in SUBSET T |-> g[s]]
    OBVIOUS
  <2>2. g[{}] = base
    OBVIOUS
  <2> HIDE DEF g
  <2>3. g = [s \in SUBSET T |-> IF s = {} THEN base ELSE step[pick[s]][g[s \ {pick[s]}]]]
    BY <1>5, <2>1, <2>2
  <2> QED
    BY <2>3 DEF Folds, FoldsTo
<1> QED
  BY <1>6, <1>1 DEF Folds

(* stays within a type that its step stays within, *)
LEMMA FoldTypes ==
    ASSUME NEW S, IsFiniteSet(S), NEW pick, Picks(pick, S), NEW B, NEW g, g[{}] \in B,
           \A s \in SUBSET S : s # {} /\ g[s \ {pick[s]}] \in B => g[s] \in B
    PROVE  \A s \in SUBSET S : g[s] \in B
<1> DEFINE Good == {s \in SUBSET S : g[s] \in B}
<1>1. {} \in Good
  OBVIOUS
<1>2. \A s \in SUBSET S : s # {} /\ s \ {pick[s]} \in Good => s \in Good
  OBVIOUS
<1> HIDE DEF Good
<1>3. \A s \in SUBSET S : s \in Good
  BY <1>1, <1>2, FoldInduction
<1> QED
  BY <1>3 DEF Good

KeepsType(S, base, step, B) == base \in B /\ \A x \in S, b \in B : step[x][b] \in B

LEMMA FoldTyped ==
    ASSUME NEW S, IsFiniteSet(S), NEW pick, Picks(pick, S), NEW base, NEW step, NEW B,
           KeepsType(S, base, step, B)
    PROVE  \E g : FoldsTo(g, S, base, pick, step) /\ \A s \in SUBSET S : g[s] \in B
<1> USE DEF KeepsType
<1>1. PICK g : FoldsTo(g, S, base, pick, step)
  BY FoldExists
<1>2. g[{}] \in B
  BY <1>1 DEF FoldsTo
<1>3. \A s \in SUBSET S : s # {} => pick[s] \in S
  BY DEF Picks
<1>4. \A s \in SUBSET S : s # {} => g[s] = step[pick[s]][g[s \ {pick[s]}]]
  BY <1>1 DEF FoldsTo
<1>5. \A s \in SUBSET S : s # {} /\ g[s \ {pick[s]}] \in B => g[s] \in B
  BY <1>3, <1>4
<1>6. \A s \in SUBSET S : g[s] \in B
  BY <1>2, <1>5, FoldTypes
<1> QED
  BY <1>1, <1>6

(* and is known once it is known to take the step on values of that type. *)
TakesSteps(g, S, base, pick, step, B) ==
    /\ g = [s \in SUBSET S |-> g[s]] /\ g[{}] = base
    /\ \A s \in SUBSET S : s # {} /\ g[s \ {pick[s]}] \in B =>
           g[s] = step[pick[s]][g[s \ {pick[s]}]]

LEMMA FoldKnown ==
    ASSUME NEW S, IsFiniteSet(S), NEW pick, Picks(pick, S), NEW base, NEW step, NEW B,
           KeepsType(S, base, step, B), NEW g, TakesSteps(g, S, base, pick, step, B)
    PROVE  FoldsTo(g, S, base, pick, step) /\ \A s \in SUBSET S : g[s] \in B
<1> USE DEF TakesSteps, KeepsType
<1>1. \A s \in SUBSET S : s # {} => pick[s] \in S
  BY DEF Picks
<1>2. \A s \in SUBSET S : s # {} /\ g[s \ {pick[s]}] \in B => g[s] \in B
  BY <1>1
<1>3. \A s \in SUBSET S : g[s] \in B
  <2>1. g[{}] \in B
    OBVIOUS
  <2> QED
    BY <1>2, <2>1, FoldTypes
<1>4. \A s \in SUBSET S : s # {} => s \ {pick[s]} \in SUBSET S
  OBVIOUS
<1>5. \A s \in SUBSET S :
        g[s] = IF s = {} THEN base ELSE step[pick[s]][g[s \ {pick[s]}]]
  BY <1>3, <1>4
<1>6. FoldsTo(g, S, base, pick, step)
  BY <1>5 DEF FoldsTo
<1> QED
  BY <1>3, <1>6

-----------------------------------------------------------------------------
(* The counters of a list of views. *)
Counters == [total : Nat, by : [Role -> Nat], runningJobs : Nat, nodes : SUBSET NodeView]

LEMMA EmptyType == EmptyRollup \in Counters
BY DEF EmptyRollup, Counters

LEMMA CountType ==
    ASSUME NEW out \in Counters, NEW v \in NodeView PROVE Count(out, v) \in Counters
<1>1. v.role \in Role /\ v.runningJobs \in Nat
  BY DEF NodeView
<1>2. [out.by EXCEPT ![v.role] = @ + 1] \in [Role -> Nat]
  BY <1>1 DEF Counters
<1> QED
  BY <1>1, <1>2 DEF Counters, Count

PickView == [s \in SUBSET NodeView |-> CHOOSE v \in s : TRUE]

LEMMA PicksView == ASSUME NEW V \in SUBSET NodeView PROVE Picks(PickView, V)
BY DEF Picks, PickView

CountStep == [v \in NodeView |-> [out \in Counters |-> Count(out, v)]]

TallyFcn(V) == CHOOSE f : f = [s \in SUBSET V |->
    IF s = {} THEN EmptyRollup
    ELSE Count(f[s \ {CHOOSE v \in s : TRUE}], CHOOSE v \in s : TRUE)]

(* The function behind Tally is the fold of Count. *)
LEMMA TallyFolds ==
    ASSUME NEW V \in SUBSET NodeView, IsFiniteSet(V)
    PROVE  FoldsTo(TallyFcn(V), V, EmptyRollup, PickView, CountStep) /\ \A s \in SUBSET V : TallyFcn(V)[s] \in Counters
<1> DEFINE E(f) == [s \in SUBSET V |-> IF s = {} THEN EmptyRollup
                                       ELSE Count(f[s \ {CHOOSE v \in s : TRUE}], CHOOSE v \in s : TRUE)]
           f == TallyFcn(V)
<1>1. Picks(PickView, V)
  BY PicksView
<1>2. \A s \in SUBSET V : s # {} => PickView[s] = (CHOOSE v \in s : TRUE) /\ PickView[s] \in V
  BY <1>1 DEF PickView, Picks
<1>3. \A x \in V, b \in Counters : CountStep[x][b] = Count(b, x)
  BY DEF CountStep
<1>4. KeepsType(V, EmptyRollup, CountStep, Counters)
  BY <1>3, EmptyType, CountType DEF KeepsType
<1>5. PICK g : FoldsTo(g, V, EmptyRollup, PickView, CountStep) /\ \A s \in SUBSET V : g[s] \in Counters
  BY <1>1, <1>4, FoldTyped
<1>6. \A s \in SUBSET V : s # {} =>
        CountStep[PickView[s]][g[s \ {PickView[s]}]] = Count(g[s \ {CHOOSE v \in s : TRUE}], CHOOSE v \in s : TRUE)
  BY <1>2, <1>3, <1>5
<1>7. g = E(g)
  BY <1>5, <1>6 DEF FoldsTo
<1>8. f = E(f)
  BY <1>7 DEF TallyFcn
<1> HIDE DEF f
<1>9. ASSUME NEW s \in SUBSET V, s # {}, f[s \ {PickView[s]}] \in Counters
      PROVE  f[s] = CountStep[PickView[s]][f[s \ {PickView[s]}]]
  <2>1. f[s] = Count(f[s \ {PickView[s]}], PickView[s])
    BY <1>2, <1>8, <1>9
  <2> QED
    BY <1>2, <1>3, <1>9, <2>1
<1>10. f[{}] = EmptyRollup /\ f = [s \in SUBSET V |-> f[s]]
  BY <1>8
<1>11. TakesSteps(f, V, EmptyRollup, PickView, CountStep, Counters)
  BY <1>9, <1>10 DEF TakesSteps
<1>12. FoldsTo(f, V, EmptyRollup, PickView, CountStep) /\ \A s \in SUBSET V : f[s] \in Counters
  BY <1>1, <1>4, <1>11, FoldKnown
<1> QED
  BY <1>12 DEF f

(* One turn of the loop, whichever view it picks. *)
LEMMA TallySteps ==
    ASSUME NEW V \in SUBSET NodeView, IsFiniteSet(V)
    PROVE  /\ Tally(V) \in Counters
           /\ V = {} => Tally(V) = EmptyRollup
           /\ V # {} => Tally(V) = Count(Tally(V \ {PickView[V]}), PickView[V])
<1>1. Picks(PickView, V)
  BY PicksView
<1>2. \A U \in SUBSET V : /\ FoldsTo(TallyFcn(U), U, EmptyRollup, PickView, CountStep)
                          /\ Tally(U) = TallyFcn(U)[U] /\ Tally(U) \in Counters
  <2> SUFFICES ASSUME NEW U \in SUBSET V
               PROVE  /\ FoldsTo(TallyFcn(U), U, EmptyRollup, PickView, CountStep)
                      /\ Tally(U) = TallyFcn(U)[U] /\ Tally(U) \in Counters
    OBVIOUS
  <2>1. Tally(U) = TallyFcn(U)[U]
    BY DEF Tally, FoldSet, MapThenFoldSet, TallyFcn
  <2>2. IsFiniteSet(U) /\ U \in SUBSET NodeView /\ U \in SUBSET U
    BY FS_Subset
  <2> QED
    BY <2>1, <2>2, TallyFolds
<1>3. V = {} => Tally(V) = EmptyRollup
  BY <1>2 DEF FoldsTo
<1>4. ASSUME V # {} PROVE Tally(V) = Count(Tally(V \ {PickView[V]}), PickView[V])
  <2>1. V \ {PickView[V]} \in SUBSET V /\ PickView[V] \in NodeView /\ V \in SUBSET V
    BY <1>1, <1>4 DEF Picks
  <2>2. Tally(V) = CountStep[PickView[V]][Tally(V \ {PickView[V]})]
    <3> DEFINE rest == V \ {PickView[V]}
    <3>1. FoldsTo(TallyFcn(V), V, EmptyRollup, PickView, CountStep) /\ Tally(V) = TallyFcn(V)[V]
      BY <1>2, <2>1
    <3>2. FoldsTo(TallyFcn(rest), rest, EmptyRollup, PickView, CountStep) /\ Tally(rest) = TallyFcn(rest)[rest]
      BY <1>2, <2>1
    <3>3. rest \in SUBSET V /\ V \in SUBSET V
      BY <2>1
    <3>4. TallyFcn(V)[V] = CountStep[PickView[V]][TallyFcn(V)[rest]]
      BY <1>4, <3>1, <3>3 DEF FoldsTo
    <3> HIDE DEF rest
    <3>5. TallyFcn(V)[rest] = TallyFcn(rest)[rest]
      BY <1>1, <3>1, <3>2, <3>3, FoldAgrees
    <3> QED
      BY <3>1, <3>2, <3>4, <3>5 DEF rest
  <2> QED
    BY <1>2, <2>1, <2>2 DEF CountStep
<1> QED
  BY <1>2, <1>3, <1>4

-----------------------------------------------------------------------------
(* The jobs of a list of views, and that their order does not matter. *)
NoJobs == 0
JobsStep == [v \in NodeView |-> [k \in Nat |-> v.runningJobs + k]]

JobsFcn(V) == CHOOSE f : f = [s \in SUBSET V |->
    IF s = {} THEN NoJobs ELSE (CHOOSE v \in s : TRUE).runningJobs + f[s \ {CHOOSE v \in s : TRUE}]]

LEMMA JobsType == NoJobs \in Nat /\ \A v \in NodeView, k \in Nat : v.runningJobs + k \in Nat
BY DEF NodeView, NoJobs

LEMMA JobsFolds ==
    ASSUME NEW V \in SUBSET NodeView, IsFiniteSet(V)
    PROVE  FoldsTo(JobsFcn(V), V, NoJobs, PickView, JobsStep) /\ \A s \in SUBSET V : JobsFcn(V)[s] \in Nat
<1> DEFINE E(f) == [s \in SUBSET V |-> IF s = {} THEN NoJobs
                                       ELSE (CHOOSE v \in s : TRUE).runningJobs + f[s \ {CHOOSE v \in s : TRUE}]]
           f == JobsFcn(V)
<1>1. Picks(PickView, V)
  BY PicksView
<1>2. \A s \in SUBSET V : s # {} => PickView[s] = (CHOOSE v \in s : TRUE) /\ PickView[s] \in V
  BY <1>1 DEF PickView, Picks
<1>3. \A x \in V, b \in Nat : JobsStep[x][b] = x.runningJobs + b
  BY DEF JobsStep
<1>4. KeepsType(V, NoJobs, JobsStep, Nat)
  BY <1>3, JobsType DEF KeepsType
<1>5. PICK g : FoldsTo(g, V, NoJobs, PickView, JobsStep) /\ \A s \in SUBSET V : g[s] \in Nat
  BY <1>1, <1>4, FoldTyped
<1>6. \A s \in SUBSET V : s # {} =>
        JobsStep[PickView[s]][g[s \ {PickView[s]}]] = (CHOOSE v \in s : TRUE).runningJobs + g[s \ {CHOOSE v \in s : TRUE}]
  BY <1>2, <1>3, <1>5
<1>7. g = E(g)
  BY <1>5, <1>6 DEF FoldsTo
<1>8. f = E(f)
  BY <1>7 DEF JobsFcn
<1> HIDE DEF f
<1>9. ASSUME NEW s \in SUBSET V, s # {}, f[s \ {PickView[s]}] \in Nat
      PROVE  f[s] = JobsStep[PickView[s]][f[s \ {PickView[s]}]]
  <2>1. f[s] = PickView[s].runningJobs + f[s \ {PickView[s]}]
    BY <1>2, <1>8, <1>9
  <2> QED
    BY <1>2, <1>3, <1>9, <2>1
<1>10. f[{}] = NoJobs /\ f = [s \in SUBSET V |-> f[s]]
  BY <1>8
<1>11. TakesSteps(f, V, NoJobs, PickView, JobsStep, Nat)
  BY <1>9, <1>10 DEF TakesSteps
<1>12. FoldsTo(f, V, NoJobs, PickView, JobsStep) /\ \A s \in SUBSET V : f[s] \in Nat
  BY <1>1, <1>4, <1>11, FoldKnown
<1> QED
  BY <1>12 DEF f

LEMMA JobsSteps ==
    ASSUME NEW V \in SUBSET NodeView, IsFiniteSet(V)
    PROVE  /\ Jobs(V) \in Nat
           /\ V = {} => Jobs(V) = NoJobs
           /\ V # {} => Jobs(V) = PickView[V].runningJobs + Jobs(V \ {PickView[V]})
<1>1. Picks(PickView, V)
  BY PicksView
<1>2. \A U \in SUBSET V : /\ FoldsTo(JobsFcn(U), U, NoJobs, PickView, JobsStep)
                          /\ Jobs(U) = JobsFcn(U)[U] /\ Jobs(U) \in Nat
  <2> SUFFICES ASSUME NEW U \in SUBSET V
               PROVE  /\ FoldsTo(JobsFcn(U), U, NoJobs, PickView, JobsStep)
                      /\ Jobs(U) = JobsFcn(U)[U] /\ Jobs(U) \in Nat
    OBVIOUS
  <2>1. Jobs(U) = JobsFcn(U)[U]
    BY DEF Jobs, MapThenSumSet, MapThenFoldSet, NoJobs, JobsFcn
  <2>2. IsFiniteSet(U) /\ U \in SUBSET NodeView /\ U \in SUBSET U
    BY FS_Subset
  <2> QED
    BY <2>1, <2>2, JobsFolds
<1>3. V = {} => Jobs(V) = NoJobs
  BY <1>2 DEF FoldsTo
<1>4. ASSUME V # {} PROVE Jobs(V) = PickView[V].runningJobs + Jobs(V \ {PickView[V]})
  <2>1. V \ {PickView[V]} \in SUBSET V /\ PickView[V] \in NodeView /\ V \in SUBSET V
    BY <1>1, <1>4 DEF Picks
  <2>2. Jobs(V) = JobsStep[PickView[V]][Jobs(V \ {PickView[V]})]
    <3> DEFINE rest == V \ {PickView[V]}
    <3>1. FoldsTo(JobsFcn(V), V, NoJobs, PickView, JobsStep) /\ Jobs(V) = JobsFcn(V)[V]
      BY <1>2, <2>1
    <3>2. FoldsTo(JobsFcn(rest), rest, NoJobs, PickView, JobsStep) /\ Jobs(rest) = JobsFcn(rest)[rest]
      BY <1>2, <2>1
    <3>3. rest \in SUBSET V /\ V \in SUBSET V
      BY <2>1
    <3>4. JobsFcn(V)[V] = JobsStep[PickView[V]][JobsFcn(V)[rest]]
      BY <1>4, <3>1, <3>3 DEF FoldsTo
    <3> HIDE DEF rest
    <3>5. JobsFcn(V)[rest] = JobsFcn(rest)[rest]
      BY <1>1, <3>1, <3>2, <3>3, FoldAgrees
    <3> QED
      BY <3>1, <3>2, <3>4, <3>5 DEF rest
  <2> QED
    BY <1>2, <2>1, <2>2 DEF JobsStep
<1> QED
  BY <1>2, <1>3, <1>4

LEMMA JobsSplit ==
    ASSUME NEW V \in SUBSET NodeView, IsFiniteSet(V)
    PROVE  \A w \in V : Jobs(V) = w.runningJobs + Jobs(V \ {w})
<1> DEFINE Bad == {s \in SUBSET V : \E w \in s : Jobs(s) # w.runningJobs + Jobs(s \ {w})}
<1>0. ASSUME Bad # {} PROVE FALSE
  <2>1. PICK s \in Bad : \A u \in Bad : u \subseteq s => u = s
    <3>1. Bad \in SUBSET SUBSET V
      OBVIOUS
    <3> HIDE DEF Bad
    <3> QED
      BY <1>0, <3>1, SmallestBad
  <2>2. PICK w \in s : Jobs(s) # w.runningJobs + Jobs(s \ {w})
    OBVIOUS
  <2> DEFINE p == PickView[s]
  <2>3. s \in SUBSET NodeView /\ s # {} /\ IsFiniteSet(s) /\ w \in NodeView
    BY FS_Subset
  <2>4. p \in s /\ p \in NodeView
    BY <2>3, PicksView DEF Picks
  <2>5. Jobs(s) = p.runningJobs + Jobs(s \ {p})
    BY <2>3, JobsSteps
  <2>6. w # p
    BY <2>2, <2>5
  <2> HIDE DEF p
  <2>7. Jobs(s \ {p}) = w.runningJobs + Jobs((s \ {p}) \ {w})
    <3>1. s \ {p} \in SUBSET V /\ s \ {p} \notin Bad /\ w \in s \ {p}
      BY <2>1, <2>4, <2>6
    <3> QED
      BY <3>1
  <2>8. Jobs(s \ {w}) = p.runningJobs + Jobs((s \ {w}) \ {p})
    <3>1. s \ {w} \in SUBSET V /\ s \ {w} \notin Bad /\ p \in s \ {w}
      BY <2>1, <2>4, <2>6
    <3> QED
      BY <3>1
  <2> DEFINE r == (s \ {p}) \ {w}
  <2>9. (s \ {w}) \ {p} = r /\ r \in SUBSET NodeView
    BY <2>3
  <2>10. Jobs(r) \in Nat
    BY <2>3, <2>9, FS_Subset, JobsSteps
  <2> HIDE DEF r
  <2>11. w.runningJobs \in Nat /\ p.runningJobs \in Nat
    BY <2>3, <2>4 DEF NodeView
  <2>12. Jobs(s \ {p}) = w.runningJobs + Jobs(r) /\ Jobs(s \ {w}) = p.runningJobs + Jobs(r)
    BY <2>7, <2>8, <2>9 DEF r
  <2> QED
    BY <2>2, <2>5, <2>10, <2>11, <2>12
<1> QED
  BY <1>0

-----------------------------------------------------------------------------
(* A pass over an atlas. *)
View(e, flaky) == Classify(e, e.node \notin flaky)

LEMMA ViewType == ASSUME NEW e \in AtlasEntry, NEW flaky PROVE View(e, flaky) \in NodeView
<1>1. RoleOf(e) \in Role
  BY RollupAssumption DEF RoleOf, Role, AtlasEntry
<1> QED
  BY <1>1 DEF View, Classify, NodeView, AtlasEntry

PickEntry == [s \in SUBSET AtlasEntry |-> CHOOSE e \in s : TRUE]

LEMMA PicksEntry == ASSUME NEW A \in SUBSET AtlasEntry PROVE Picks(PickEntry, A)
BY DEF Picks, PickEntry

EntryStep(flaky) == [e \in AtlasEntry |-> [out \in Counters |-> Count(out, View(e, flaky))]]

RollupFcn(A, flaky) == CHOOSE f : f = [s \in SUBSET A |->
    IF s = {} THEN EmptyRollup
    ELSE Count(f[s \ {CHOOSE e \in s : TRUE}], View(CHOOSE e \in s : TRUE, flaky))]

LEMMA RollupFolds ==
    ASSUME NEW flaky, NEW A \in SUBSET AtlasEntry, IsFiniteSet(A)
    PROVE  FoldsTo(RollupFcn(A, flaky), A, EmptyRollup, PickEntry, EntryStep(flaky)) /\ \A s \in SUBSET A : RollupFcn(A, flaky)[s] \in Counters
<1> DEFINE E(f) == [s \in SUBSET A |-> IF s = {} THEN EmptyRollup
                                       ELSE Count(f[s \ {CHOOSE e \in s : TRUE}], View(CHOOSE e \in s : TRUE, flaky))]
           f == RollupFcn(A, flaky)
<1>1. Picks(PickEntry, A)
  BY PicksEntry
<1>2. \A s \in SUBSET A : s # {} => PickEntry[s] = (CHOOSE e \in s : TRUE) /\ PickEntry[s] \in A
  BY <1>1 DEF PickEntry, Picks
<1>3. \A x \in A, b \in Counters : EntryStep(flaky)[x][b] = Count(b, View(x, flaky))
  BY DEF EntryStep
<1>4. KeepsType(A, EmptyRollup, EntryStep(flaky), Counters)
  BY <1>3, EmptyType, CountType, ViewType DEF KeepsType
<1>5. PICK g : FoldsTo(g, A, EmptyRollup, PickEntry, EntryStep(flaky)) /\ \A s \in SUBSET A : g[s] \in Counters
  BY <1>1, <1>4, FoldTyped
<1>6. \A s \in SUBSET A : s # {} =>
        EntryStep(flaky)[PickEntry[s]][g[s \ {PickEntry[s]}]] = Count(g[s \ {CHOOSE e \in s : TRUE}], View(CHOOSE e \in s : TRUE, flaky))
  BY <1>2, <1>3, <1>5
<1>7. g = E(g)
  BY <1>5, <1>6 DEF FoldsTo
<1>8. f = E(f)
  BY <1>7 DEF RollupFcn
<1> HIDE DEF f
<1>9. ASSUME NEW s \in SUBSET A, s # {}, f[s \ {PickEntry[s]}] \in Counters
      PROVE  f[s] = EntryStep(flaky)[PickEntry[s]][f[s \ {PickEntry[s]}]]
  <2>1. f[s] = Count(f[s \ {PickEntry[s]}], View(PickEntry[s], flaky))
    BY <1>2, <1>8, <1>9
  <2> QED
    BY <1>2, <1>3, <1>9, <2>1
<1>10. f[{}] = EmptyRollup /\ f = [s \in SUBSET A |-> f[s]]
  BY <1>8
<1>11. TakesSteps(f, A, EmptyRollup, PickEntry, EntryStep(flaky), Counters)
  BY <1>9, <1>10 DEF TakesSteps
<1>12. FoldsTo(f, A, EmptyRollup, PickEntry, EntryStep(flaky)) /\ \A s \in SUBSET A : f[s] \in Counters
  BY <1>1, <1>4, <1>11, FoldKnown
<1> QED
  BY <1>12 DEF f

LEMMA RollupSteps ==
    ASSUME NEW flaky, NEW A \in SUBSET AtlasEntry, IsFiniteSet(A)
    PROVE  /\ RollupOf(A, flaky) \in Counters
           /\ A = {} => RollupOf(A, flaky) = EmptyRollup
           /\ A # {} => RollupOf(A, flaky) = Count(RollupOf(A \ {PickEntry[A]}, flaky), View(PickEntry[A], flaky))
<1>1. Picks(PickEntry, A)
  BY PicksEntry
<1>2. \A U \in SUBSET A : /\ FoldsTo(RollupFcn(U, flaky), U, EmptyRollup, PickEntry, EntryStep(flaky))
                          /\ RollupOf(U, flaky) = RollupFcn(U, flaky)[U] /\ RollupOf(U, flaky) \in Counters
  <2> SUFFICES ASSUME NEW U \in SUBSET A
               PROVE  /\ FoldsTo(RollupFcn(U, flaky), U, EmptyRollup, PickEntry, EntryStep(flaky))
                      /\ RollupOf(U, flaky) = RollupFcn(U, flaky)[U] /\ RollupOf(U, flaky) \in Counters
    OBVIOUS
  <2>1. RollupOf(U, flaky) = RollupFcn(U, flaky)[U]
    BY DEF RollupOf, FoldSet, MapThenFoldSet, View, RollupFcn
  <2>2. IsFiniteSet(U) /\ U \in SUBSET AtlasEntry /\ U \in SUBSET U
    BY FS_Subset
  <2> QED
    BY <2>1, <2>2, RollupFolds
<1>3. A = {} => RollupOf(A, flaky) = EmptyRollup
  BY <1>2 DEF FoldsTo
<1>4. ASSUME A # {} PROVE RollupOf(A, flaky) = Count(RollupOf(A \ {PickEntry[A]}, flaky), View(PickEntry[A], flaky))
  <2>1. A \ {PickEntry[A]} \in SUBSET A /\ PickEntry[A] \in AtlasEntry /\ A \in SUBSET A
    BY <1>1, <1>4 DEF Picks
  <2>2. RollupOf(A, flaky) = EntryStep(flaky)[PickEntry[A]][RollupOf(A \ {PickEntry[A]}, flaky)]
    <3> DEFINE rest == A \ {PickEntry[A]}
    <3>1. FoldsTo(RollupFcn(A, flaky), A, EmptyRollup, PickEntry, EntryStep(flaky)) /\ RollupOf(A, flaky) = RollupFcn(A, flaky)[A]
      BY <1>2, <2>1
    <3>2. FoldsTo(RollupFcn(rest, flaky), rest, EmptyRollup, PickEntry, EntryStep(flaky)) /\ RollupOf(rest, flaky) = RollupFcn(rest, flaky)[rest]
      BY <1>2, <2>1
    <3>3. rest \in SUBSET A /\ A \in SUBSET A
      BY <2>1
    <3>4. RollupFcn(A, flaky)[A] = EntryStep(flaky)[PickEntry[A]][RollupFcn(A, flaky)[rest]]
      BY <1>4, <3>1, <3>3 DEF FoldsTo
    <3> HIDE DEF rest
    <3>5. RollupFcn(A, flaky)[rest] = RollupFcn(rest, flaky)[rest]
      BY <1>1, <3>1, <3>2, <3>3, FoldAgrees
    <3> QED
      BY <3>1, <3>2, <3>4, <3>5 DEF rest
  <2> QED
    BY <1>2, <2>1, <2>2 DEF EntryStep
<1> QED
  BY <1>2, <1>3, <1>4

-----------------------------------------------------------------------------
(* What a console has kept of the views it has gone through. *)
ByIds == UNION {[N -> NodeView] : N \in SUBSET Node}

LEMMA KeepType == ASSUME NEW m \in ByIds, NEW v \in NodeView PROVE Keep(m, v) \in ByIds
<1>1. DOMAIN m \in SUBSET Node /\ m \in [DOMAIN m -> NodeView] /\ v.node \in Node
  BY DEF ByIds, NodeView
<1>2. Put(m, v) \in [DOMAIN m \union {v.node} -> NodeView]
  BY <1>1 DEF Put
<1> QED
  BY <1>1, <1>2 DEF Keep, ByIds

KeepStep == [v \in NodeView |-> [m \in ByIds |-> Keep(m, v)]]

KeepFcn(V, m) == CHOOSE f : f = [s \in SUBSET V |->
    IF s = {} THEN m ELSE Keep(f[s \ {CHOOSE v \in s : TRUE}], CHOOSE v \in s : TRUE)]

LEMMA KeepFolds ==
    ASSUME NEW m \in ByIds, NEW V \in SUBSET NodeView, IsFiniteSet(V)
    PROVE  FoldsTo(KeepFcn(V, m), V, m, PickView, KeepStep) /\ \A s \in SUBSET V : KeepFcn(V, m)[s] \in ByIds
<1> DEFINE E(f) == [s \in SUBSET V |-> IF s = {} THEN m
                                       ELSE Keep(f[s \ {CHOOSE v \in s : TRUE}], CHOOSE v \in s : TRUE)]
           f == KeepFcn(V, m)
<1>1. Picks(PickView, V)
  BY PicksView
<1>2. \A s \in SUBSET V : s # {} => PickView[s] = (CHOOSE v \in s : TRUE) /\ PickView[s] \in V
  BY <1>1 DEF PickView, Picks
<1>3. \A x \in V, b \in ByIds : KeepStep[x][b] = Keep(b, x)
  BY DEF KeepStep
<1>4. KeepsType(V, m, KeepStep, ByIds)
  BY <1>3, KeepType DEF KeepsType
<1>5. PICK g : FoldsTo(g, V, m, PickView, KeepStep) /\ \A s \in SUBSET V : g[s] \in ByIds
  BY <1>1, <1>4, FoldTyped
<1>6. \A s \in SUBSET V : s # {} =>
        KeepStep[PickView[s]][g[s \ {PickView[s]}]] = Keep(g[s \ {CHOOSE v \in s : TRUE}], CHOOSE v \in s : TRUE)
  BY <1>2, <1>3, <1>5
<1>7. g = E(g)
  BY <1>5, <1>6 DEF FoldsTo
<1>8. f = E(f)
  BY <1>7 DEF KeepFcn
<1> HIDE DEF f
<1>9. ASSUME NEW s \in SUBSET V, s # {}, f[s \ {PickView[s]}] \in ByIds
      PROVE  f[s] = KeepStep[PickView[s]][f[s \ {PickView[s]}]]
  <2>1. f[s] = Keep(f[s \ {PickView[s]}], PickView[s])
    BY <1>2, <1>8, <1>9
  <2> QED
    BY <1>2, <1>3, <1>9, <2>1
<1>10. f[{}] = m /\ f = [s \in SUBSET V |-> f[s]]
  BY <1>8
<1>11. TakesSteps(f, V, m, PickView, KeepStep, ByIds)
  BY <1>9, <1>10 DEF TakesSteps
<1>12. FoldsTo(f, V, m, PickView, KeepStep) /\ \A s \in SUBSET V : f[s] \in ByIds
  BY <1>1, <1>4, <1>11, FoldKnown
<1> QED
  BY <1>12 DEF f

LEMMA KeepSteps ==
    ASSUME NEW m \in ByIds, NEW V \in SUBSET NodeView, IsFiniteSet(V)
    PROVE  /\ KeepAll(m, V) \in ByIds
           /\ V = {} => KeepAll(m, V) = m
           /\ V # {} => KeepAll(m, V) = Keep(KeepAll(m, V \ {PickView[V]}), PickView[V])
<1>1. Picks(PickView, V)
  BY PicksView
<1>2. \A U \in SUBSET V : /\ FoldsTo(KeepFcn(U, m), U, m, PickView, KeepStep)
                          /\ KeepAll(m, U) = KeepFcn(U, m)[U] /\ KeepAll(m, U) \in ByIds
  <2> SUFFICES ASSUME NEW U \in SUBSET V
               PROVE  /\ FoldsTo(KeepFcn(U, m), U, m, PickView, KeepStep)
                      /\ KeepAll(m, U) = KeepFcn(U, m)[U] /\ KeepAll(m, U) \in ByIds
    OBVIOUS
  <2>1. KeepAll(m, U) = KeepFcn(U, m)[U]
    BY DEF KeepAll, FoldSet, MapThenFoldSet, KeepFcn
  <2>2. IsFiniteSet(U) /\ U \in SUBSET NodeView /\ U \in SUBSET U
    BY FS_Subset
  <2> QED
    BY <2>1, <2>2, KeepFolds
<1>3. V = {} => KeepAll(m, V) = m
  BY <1>2 DEF FoldsTo
<1>4. ASSUME V # {} PROVE KeepAll(m, V) = Keep(KeepAll(m, V \ {PickView[V]}), PickView[V])
  <2>1. V \ {PickView[V]} \in SUBSET V /\ PickView[V] \in NodeView /\ V \in SUBSET V
    BY <1>1, <1>4 DEF Picks
  <2>2. KeepAll(m, V) = KeepStep[PickView[V]][KeepAll(m, V \ {PickView[V]})]
    <3> DEFINE rest == V \ {PickView[V]}
    <3>1. FoldsTo(KeepFcn(V, m), V, m, PickView, KeepStep) /\ KeepAll(m, V) = KeepFcn(V, m)[V]
      BY <1>2, <2>1
    <3>2. FoldsTo(KeepFcn(rest, m), rest, m, PickView, KeepStep) /\ KeepAll(m, rest) = KeepFcn(rest, m)[rest]
      BY <1>2, <2>1
    <3>3. rest \in SUBSET V /\ V \in SUBSET V
      BY <2>1
    <3>4. KeepFcn(V, m)[V] = KeepStep[PickView[V]][KeepFcn(V, m)[rest]]
      BY <1>4, <3>1, <3>3 DEF FoldsTo
    <3> HIDE DEF rest
    <3>5. KeepFcn(V, m)[rest] = KeepFcn(rest, m)[rest]
      BY <1>1, <3>1, <3>2, <3>3, FoldAgrees
    <3> QED
      BY <3>1, <3>2, <3>4, <3>5 DEF rest
  <2> QED
    BY <1>2, <2>1, <2>2 DEF KeepStep
<1> QED
  BY <1>2, <1>3, <1>4

-----------------------------------------------------------------------------
(* The lists of all the parts, one after the other: the last first, as Max picks. *)
LEMMA MaxExists ==
    ASSUME NEW n \in Nat, NEW s \in SUBSET (1 .. n), s # {}
    PROVE  Max(s) \in s /\ \A y \in s : Max(s) >= y
<1> DEFINE Tops(t) == {x \in t : \A y \in t : x >= y}
           D == 1 .. n
           Bad == {t \in SUBSET D : t # {} /\ Tops(t) = {}}
<1>1. ASSUME Bad # {} PROVE FALSE
  <2>1. IsFiniteSet(D)
    BY FS_Interval
  <2>2. PICK t \in Bad : \A u \in Bad : u \subseteq t => u = t
    <3>1. Bad \in SUBSET SUBSET D
      OBVIOUS
    <3> HIDE DEF Bad, D
    <3> QED
      BY <1>1, <2>1, <3>1, SmallestBad
  <2>3. PICK x \in t : TRUE
    OBVIOUS
  <2> DEFINE u == t \ {x}
  <2>4. u = {} \/ Tops(u) # {}
    <3>1. u \in SUBSET D /\ u \subseteq t /\ u # t
      OBVIOUS
    <3>2. u \notin Bad
      BY <2>2, <3>1
    <3> HIDE DEF u, Tops
    <3> QED
      BY <3>1, <3>2
  <2>5. CASE u = {}
    <3>1. t = {x} /\ x \in Nat
      BY <2>5
    <3>2. x \in Tops(t)
      BY <3>1
    <3> QED
      BY <3>2
  <2>6. CASE Tops(u) # {}
    <3>1. PICK y \in u : \A z \in u : y >= z
      BY <2>6
    <3>2. x \in Int /\ y \in Int /\ \A z \in t : z \in Int
      OBVIOUS
    <3>3. \A z \in t : z = x \/ y >= z
      BY <3>1
    <3>4. y \in Tops(t) \/ x \in Tops(t)
      BY <3>2, <3>3
    <3> QED
      BY <3>4
  <2> QED
    BY <2>4, <2>5, <2>6
<1>2. \E x \in s : \A y \in s : x >= y
  BY <1>1
<1> QED
  BY <1>2 DEF Max

NoNodes == [n \in {} |-> n]

Lists(parts) == /\ parts \in Seq(Counters)
                /\ \A i \in 1 .. Len(parts) : IsFiniteSet(parts[i].nodes)

PickPart(n) == [s \in SUBSET (1 .. n) |-> Max(s)]

PartStep(parts) == [i \in 1 .. Len(parts) |-> [m \in ByIds |-> KeepAll(m, parts[i].nodes)]]

PartFcn(parts) == CHOOSE f : f = [s \in SUBSET DOMAIN parts |->
    IF s = {} THEN NoNodes ELSE KeepAll(f[s \ {Max(s)}], parts[Max(s)].nodes)]

LEMMA PartType == ASSUME NEW parts, Lists(parts), NEW i \in 1 .. Len(parts), NEW m \in ByIds
                  PROVE  KeepAll(m, parts[i].nodes) \in ByIds
<1>1. IsFiniteSet(parts[i].nodes) /\ parts[i] \in Counters
  BY DEF Lists
<1>2. parts[i].nodes \in SUBSET NodeView
  BY <1>1 DEF Counters
<1> QED
  BY <1>1, <1>2, KeepSteps

LEMMA PartFolds ==
    ASSUME NEW parts, Lists(parts)
    PROVE  /\ FoldsTo(PartFcn(parts), 1 .. Len(parts), NoNodes, PickPart(Len(parts)), PartStep(parts))
           /\ \A s \in SUBSET (1 .. Len(parts)) : PartFcn(parts)[s] \in ByIds
<1> DEFINE D == 1 .. Len(parts)
           pick == PickPart(Len(parts))
           E(f) == [s \in SUBSET D |-> IF s = {} THEN NoNodes
                                       ELSE KeepAll(f[s \ {Max(s)}], parts[Max(s)].nodes)]
           f == PartFcn(parts)
<1>0. DOMAIN parts = D /\ Len(parts) \in Nat /\ IsFiniteSet(D)
  <2>1. DOMAIN parts = D /\ Len(parts) \in Nat
    BY DEF Lists
  <2> QED
    BY <2>1, FS_Interval
<1>1. Picks(pick, D)
  BY <1>0, MaxExists DEF Picks, PickPart
<1>2. \A s \in SUBSET D : s # {} => pick[s] = Max(s) /\ pick[s] \in D
  BY <1>1 DEF PickPart, Picks
<1>3. \A x \in D, b \in ByIds : PartStep(parts)[x][b] = KeepAll(b, parts[x].nodes)
  BY DEF PartStep
<1>4. KeepsType(D, NoNodes, PartStep(parts), ByIds)
  <2>1. NoNodes \in [{} -> NodeView]
    BY DEF NoNodes
  <2>2. NoNodes \in ByIds
    BY <2>1 DEF ByIds
  <2> QED
    BY <1>3, <2>2, PartType DEF KeepsType
<1> HIDE DEF D, pick
<1>5. PICK g : FoldsTo(g, D, NoNodes, pick, PartStep(parts)) /\ \A s \in SUBSET D : g[s] \in ByIds
  BY <1>0, <1>1, <1>4, FoldTyped
<1>6. \A s \in SUBSET D : s # {} =>
        PartStep(parts)[pick[s]][g[s \ {pick[s]}]] = KeepAll(g[s \ {Max(s)}], parts[Max(s)].nodes)
  BY <1>2, <1>3, <1>5
<1>7. g = E(g)
  BY <1>5, <1>6 DEF FoldsTo
<1>8. f = E(f)
  BY <1>0, <1>7 DEF PartFcn
<1> HIDE DEF f
<1>9. ASSUME NEW s \in SUBSET D, s # {}, f[s \ {pick[s]}] \in ByIds
      PROVE  f[s] = PartStep(parts)[pick[s]][f[s \ {pick[s]}]]
  <2>1. f[s] = KeepAll(f[s \ {pick[s]}], parts[pick[s]].nodes)
    BY <1>2, <1>8, <1>9
  <2> QED
    BY <1>2, <1>3, <1>9, <2>1
<1>10. f[{}] = NoNodes /\ f = [s \in SUBSET D |-> f[s]]
  BY <1>8
<1>11. TakesSteps(f, D, NoNodes, pick, PartStep(parts), ByIds)
  BY <1>9, <1>10 DEF TakesSteps
<1>12. FoldsTo(f, D, NoNodes, pick, PartStep(parts)) /\ \A s \in SUBSET D : f[s] \in ByIds
  BY <1>0, <1>1, <1>4, <1>11, FoldKnown
<1> QED
  BY <1>12 DEF f, D, pick

-----------------------------------------------------------------------------
(* The counters agree with a list of views. *)
OfRole(V, x) == {v \in V : v.role = x}

Tallied(out, V) == /\ out.nodes = V /\ out.total = Cardinality(V)
                   /\ \A x \in Role : out.by[x] = Cardinality(OfRole(V, x))
                   /\ out.runningJobs = Jobs(OfRole(V, "worker"))

LEMMA NoneTallied == Tallied(EmptyRollup, {})
<1>1. \A x \in Role : OfRole({}, x) = {} /\ EmptyRollup.by[x] = 0
  BY DEF OfRole, EmptyRollup
<1>2. Jobs({}) = 0
  BY JobsSteps, FS_EmptySet DEF NoJobs
<1>3. OfRole({}, "worker") = {}
  BY DEF OfRole
<1>4. EmptyRollup.total = 0 /\ EmptyRollup.nodes = {} /\ EmptyRollup.runningJobs = 0
  BY DEF EmptyRollup
<1> QED
  BY <1>1, <1>2, <1>3, <1>4, FS_EmptySet DEF Tallied

(* They go on agreeing when a view that is not yet listed is counted. *)
LEMMA CountTallies ==
    ASSUME NEW V \in SUBSET NodeView, IsFiniteSet(V), NEW v \in NodeView, v \notin V,
           NEW out \in Counters, Tallied(out, V)
    PROVE  Tallied(Count(out, v), V \union {v})
<1> DEFINE W == V \union {v}
           c == Count(out, v)
<1>1. v.role \in Role /\ v.runningJobs \in Nat
  BY DEF NodeView
<1>2. /\ c.nodes = W /\ c.total = out.total + 1
      /\ c.runningJobs = out.runningJobs + IF v.role = "worker" THEN v.runningJobs ELSE 0
      /\ c.by = [out.by EXCEPT ![v.role] = @ + 1]
  BY DEF Tallied, Count
<1>3. \A x : OfRole(V, x) \in SUBSET V /\ IsFiniteSet(OfRole(V, x))
  <2> SUFFICES ASSUME NEW x PROVE OfRole(V, x) \in SUBSET V /\ IsFiniteSet(OfRole(V, x))
    OBVIOUS
  <2>1. OfRole(V, x) \in SUBSET V
    BY DEF OfRole
  <2> QED
    BY <2>1, FS_Subset
<1>4. \A x : OfRole(W, x) = IF x = v.role THEN OfRole(V, x) \union {v} ELSE OfRole(V, x)
  BY DEF OfRole
<1>5. c.total = Cardinality(W)
  <2>1. Cardinality(W) = Cardinality(V) + 1
    BY FS_AddElement
  <2>2. out.total = Cardinality(V)
    BY DEF Tallied
  <2> HIDE DEF c, W
  <2> QED
    BY <1>2, <2>1, <2>2
<1>6. ASSUME NEW x \in Role PROVE c.by[x] = Cardinality(OfRole(W, x))
  <2>1. out.by \in [Role -> Nat] /\ out.by[x] = Cardinality(OfRole(V, x))
    BY DEF Tallied, Counters
  <2>2. c.by[x] = IF x = v.role THEN out.by[x] + 1 ELSE out.by[x]
    BY <1>1, <1>2, <2>1
  <2>3. v \notin OfRole(V, x)
    BY <1>3
  <2>4. Cardinality(OfRole(V, x) \union {v}) = Cardinality(OfRole(V, x)) + 1
    BY <1>3, <2>3, FS_AddElement
  <2> QED
    BY <1>4, <2>1, <2>2, <2>4
<1>7. c.runningJobs = Jobs(OfRole(W, "worker"))
  <2> DEFINE U == OfRole(V, "worker")
  <2>1. U \in SUBSET NodeView /\ IsFiniteSet(U) /\ v \notin U
    BY <1>3
  <2>2. out.runningJobs = Jobs(U) /\ Jobs(U) \in Nat
    BY <2>1, JobsSteps DEF Tallied
  <2>3. CASE v.role = "worker"
    <3>1. OfRole(W, "worker") = U \union {v}
      BY <1>4, <2>3
    <3>2. IsFiniteSet(U \union {v}) /\ U \union {v} \in SUBSET NodeView /\ (U \union {v}) \ {v} = U
      BY <2>1, FS_AddElement
    <3> HIDE DEF U
    <3>3. Jobs(U \union {v}) = v.runningJobs + Jobs(U)
      BY <3>2, JobsSplit
    <3>4. c.runningJobs = out.runningJobs + v.runningJobs
      BY <1>2, <2>3
    <3>5. Jobs(OfRole(W, "worker")) = v.runningJobs + Jobs(U)
      BY <3>1, <3>3
    <3> HIDE DEF c, W
    <3> QED
      BY <1>1, <2>2, <3>4, <3>5
  <2>4. CASE v.role # "worker"
    <3>1. OfRole(W, "worker") = U
      BY <1>4, <2>4
    <3> QED
      BY <1>2, <2>2, <2>4, <3>1
  <2> QED
    BY <2>3, <2>4
<1> HIDE DEF c, W
<1>8. Tallied(c, W)
  BY <1>2, <1>5, <1>6, <1>7 DEF Tallied
<1> QED
  BY <1>8 DEF c, W

(* So a list of views, and an atlas with one entry for each node, is counted right. *)
LEMMA TallyTallies == ASSUME NEW V \in SUBSET NodeView, IsFiniteSet(V) PROVE Tallied(Tally(V), V)
<1> DEFINE Good == {s \in SUBSET V : Tallied(Tally(s), s)}
<1>1. Picks(PickView, V)
  BY PicksView
<1>2. {} \in Good
  <2>1. Tally({}) = EmptyRollup
    BY TallySteps, FS_EmptySet
  <2> QED
    BY <2>1, NoneTallied
<1>3. ASSUME NEW s \in SUBSET V, s # {}, s \ {PickView[s]} \in Good PROVE s \in Good
  <2> DEFINE v == PickView[s]
             r == s \ {v}
  <2>1. v \in s /\ s \in SUBSET NodeView /\ r \in SUBSET V /\ s = r \union {v} /\ v \notin r
    BY <1>1, <1>3 DEF Picks
  <2>2. IsFiniteSet(s) /\ IsFiniteSet(r) /\ r \in SUBSET NodeView /\ v \in NodeView
    BY <2>1, FS_Subset
  <2>3. Tally(s) = Count(Tally(r), v) /\ Tally(r) \in Counters
    BY <1>3, <2>1, <2>2, TallySteps
  <2>4. Tallied(Tally(r), r)
    BY <1>3
  <2> HIDE DEF v, r
  <2>5. Tallied(Count(Tally(r), v), r \union {v})
    BY <2>1, <2>2, <2>3, <2>4, CountTallies
  <2> QED
    BY <2>1, <2>3, <2>5
<1> HIDE DEF Good
<1>4. \A s \in SUBSET V : s # {} /\ s \ {PickView[s]} \in Good => s \in Good
  BY <1>3
<1>5. V \in Good
  BY <1>1, <1>2, <1>4, FoldInduction
<1> QED
  BY <1>5 DEF Good

OnePerNode(A) == \A e \in A, d \in A : e.node = d.node => e = d

Views(A, flaky) == {View(e, flaky) : e \in A}

LEMMA RollupLists ==
    ASSUME NEW A \in SUBSET AtlasEntry, IsFiniteSet(A), NEW flaky
    PROVE  /\ RollupOf(A, flaky) \in Counters
           /\ RollupOf(A, flaky).nodes = Views(A, flaky) /\ IsFiniteSet(Views(A, flaky))
<1> DEFINE Good == {s \in SUBSET A : /\ RollupOf(s, flaky).nodes = Views(s, flaky)
                                     /\ IsFiniteSet(Views(s, flaky))}
<1>1. Picks(PickEntry, A)
  BY PicksEntry
<1>2. {} \in Good
  <2>1. RollupOf({}, flaky) = EmptyRollup
    BY RollupSteps, FS_EmptySet
  <2>2. Views({}, flaky) = {}
    BY DEF Views
  <2> QED
    BY <2>1, <2>2, FS_EmptySet DEF EmptyRollup
<1>3. ASSUME NEW s \in SUBSET A, s # {}, s \ {PickEntry[s]} \in Good PROVE s \in Good
  <2> DEFINE e == PickEntry[s]
             r == s \ {e}
  <2>1. e \in s /\ s \in SUBSET AtlasEntry /\ IsFiniteSet(s) /\ s = r \union {e}
    BY <1>1, <1>3, FS_Subset DEF Picks
  <2>2. RollupOf(s, flaky) = Count(RollupOf(r, flaky), View(e, flaky))
    BY <1>3, <2>1, RollupSteps
  <2>3. Views(s, flaky) = Views(r, flaky) \union {View(e, flaky)}
    BY <2>1 DEF Views
  <2>4. RollupOf(s, flaky).nodes = RollupOf(r, flaky).nodes \union {View(e, flaky)}
    BY <2>2 DEF Count
  <2>5. RollupOf(r, flaky).nodes = Views(r, flaky) /\ IsFiniteSet(Views(r, flaky))
    BY <1>3
  <2> HIDE DEF e, r
  <2>6. IsFiniteSet(Views(s, flaky))
    BY <2>3, <2>5, FS_AddElement
  <2>7. RollupOf(s, flaky).nodes = Views(s, flaky)
    BY <2>3, <2>4, <2>5
  <2> QED
    BY <2>6, <2>7
<1> HIDE DEF Good
<1>4. \A s \in SUBSET A : s # {} /\ s \ {PickEntry[s]} \in Good => s \in Good
  BY <1>3
<1>5. A \in Good
  BY <1>1, <1>2, <1>4, FoldInduction
<1> QED
  BY <1>5, RollupSteps DEF Good

LEMMA RollupTallies ==
    ASSUME NEW A \in SUBSET AtlasEntry, IsFiniteSet(A), OnePerNode(A), NEW flaky
    PROVE  Tallied(RollupOf(A, flaky), Views(A, flaky))
<1> DEFINE Good == {s \in SUBSET A : Tallied(RollupOf(s, flaky), Views(s, flaky))}
<1>1. Picks(PickEntry, A)
  BY PicksEntry
<1>2. {} \in Good
  <2>1. RollupOf({}, flaky) = EmptyRollup
    BY RollupSteps, FS_EmptySet
  <2>2. Views({}, flaky) = {}
    BY DEF Views
  <2> QED
    BY <2>1, <2>2, NoneTallied
<1>3. ASSUME NEW s \in SUBSET A, s # {}, s \ {PickEntry[s]} \in Good PROVE s \in Good
  <2> DEFINE e == PickEntry[s]
             r == s \ {e}
             v == View(e, flaky)
             V == Views(r, flaky)
  <2>1. /\ e \in s /\ e \in AtlasEntry /\ s \in SUBSET AtlasEntry /\ IsFiniteSet(s)
        /\ r \in SUBSET AtlasEntry /\ IsFiniteSet(r) /\ s = r \union {e} /\ e \notin r
    BY <1>1, <1>3, FS_Subset DEF Picks
  <2>2. RollupOf(s, flaky) = Count(RollupOf(r, flaky), v) /\ RollupOf(r, flaky) \in Counters
    BY <1>3, <2>1, RollupSteps
  <2>3. V \in SUBSET NodeView /\ v \in NodeView /\ IsFiniteSet(V)
    <3>1. \A d \in AtlasEntry : View(d, flaky) \in NodeView
      BY ViewType
    <3>2. IsFiniteSet(V)
      BY <2>1, RollupLists
    <3> QED
      BY <2>1, <3>1, <3>2 DEF Views
  <2>4. v \notin V
    <3>1. \A d \in r : d.node # e.node
      BY <1>3, <2>1 DEF OnePerNode
    <3>2. \A d : View(d, flaky).node = d.node
      BY DEF View, Classify
    <3> QED
      BY <3>1, <3>2 DEF Views
  <2>5. Views(s, flaky) = V \union {v}
    BY <2>1 DEF Views
  <2>6. Tallied(RollupOf(r, flaky), V)
    BY <1>3
  <2> HIDE DEF v, V, r, e
  <2>7. Tallied(Count(RollupOf(r, flaky), v), V \union {v})
    BY <2>2, <2>3, <2>4, <2>6, CountTallies
  <2> QED
    BY <2>2, <2>5, <2>7
<1> HIDE DEF Good
<1>4. \A s \in SUBSET A : s # {} /\ s \ {PickEntry[s]} \in Good => s \in Good
  BY <1>3
<1>5. A \in Good
  BY <1>1, <1>2, <1>4, FoldInduction
<1> QED
  BY <1>5 DEF Good

-----------------------------------------------------------------------------
(* What is kept of a set of views: for each of their nodes the freshest of its own. *)
Freshest(m, V) ==
    /\ m \in ByIds /\ IsFiniteSet(DOMAIN m) /\ DOMAIN m = {v.node : v \in V}
    /\ \A n \in DOMAIN m : /\ m[n] \in V /\ m[n].node = n
                           /\ \A v \in V : v.node = n => m[n].lastSeen <= v.lastSeen

LEMMA KeepFreshest ==
    ASSUME NEW V \in SUBSET NodeView, NEW m, Freshest(m, V), NEW w \in NodeView
    PROVE  Freshest(Keep(m, w), V \union {w})
<1> DEFINE k == Keep(m, w)
           W == V \union {w}
<1>1. /\ m \in ByIds /\ IsFiniteSet(DOMAIN m) /\ DOMAIN m = {v.node : v \in V}
      /\ \A n \in DOMAIN m : /\ m[n] \in V /\ m[n].node = n
                             /\ \A v \in V : v.node = n => m[n].lastSeen <= v.lastSeen
  BY DEF Freshest
<1>2. \A v \in W : v.lastSeen \in Nat
  BY DEF NodeView
<1>3. k \in ByIds
  BY <1>1, KeepType
<1>4. DOMAIN k = DOMAIN m \union {w.node}
  <2>1. DOMAIN Put(m, w) = DOMAIN m \union {w.node}
    BY DEF Put
  <2> QED
    BY <2>1 DEF Keep
<1>5. IsFiniteSet(DOMAIN k) /\ DOMAIN k = {v.node : v \in W}
  <2>1. IsFiniteSet(DOMAIN m \union {w.node})
    BY <1>1, FS_AddElement
  <2> HIDE DEF k
  <2>2. DOMAIN k = {v.node : v \in W}
    BY <1>1, <1>4
  <2> QED
    BY <1>4, <2>1, <2>2
<1>6. ASSUME NEW n \in DOMAIN k
      PROVE  k[n] \in W /\ k[n].node = n /\ \A v \in W : v.node = n => k[n].lastSeen <= v.lastSeen
  <2>1. CASE n # w.node
    <3>1. n \in DOMAIN m
      BY <1>4, <2>1
    <3>2. k[n] = m[n]
      BY <2>1, <3>1 DEF Keep, Put
    <3> QED
      BY <1>1, <2>1, <3>1, <3>2
  <2>2. CASE n = w.node /\ n \in DOMAIN m /\ m[n].lastSeen <= w.lastSeen
    <3>1. k[n] = m[n]
      BY <2>2 DEF Keep
    <3> QED
      BY <1>1, <2>2, <3>1
  <2>3. CASE n = w.node /\ ~(n \in DOMAIN m /\ m[n].lastSeen <= w.lastSeen)
    <3>1. k = Put(m, w)
      BY <2>3 DEF Keep
    <3>2. k[n] = w
      BY <1>4, <2>3, <3>1 DEF Put
    <3>3. ASSUME NEW v \in V, v.node = n PROVE w.lastSeen <= v.lastSeen
      <4>1. n \in DOMAIN m /\ m[n].lastSeen <= v.lastSeen /\ m[n] \in W
        BY <1>1, <3>3
      <4>2. ~(m[n].lastSeen <= w.lastSeen)
        BY <2>3, <4>1
      <4> QED
        BY <1>2, <4>1, <4>2
    <3>4. w.lastSeen <= w.lastSeen
      BY <1>2
    <3> QED
      BY <2>3, <3>2, <3>3, <3>4
  <2> QED
    BY <2>1, <2>2, <2>3
<1> HIDE DEF k, W
<1>7. Freshest(k, W)
  BY <1>3, <1>5, <1>6 DEF Freshest
<1> QED
  BY <1>7 DEF k, W

LEMMA KeepAllFreshest ==
    ASSUME NEW V \in SUBSET NodeView, NEW m, Freshest(m, V),
           NEW W \in SUBSET NodeView, IsFiniteSet(W)
    PROVE  Freshest(KeepAll(m, W), V \union W)
<1> DEFINE Good == {s \in SUBSET W : Freshest(KeepAll(m, s), V \union s)}
<1>1. Picks(PickView, W) /\ m \in ByIds
  BY PicksView DEF Freshest
<1>2. {} \in Good
  <2>1. KeepAll(m, {}) = m
    BY <1>1, KeepSteps, FS_EmptySet
  <2>2. V \union {} = V
    OBVIOUS
  <2> QED
    BY <2>1, <2>2
<1>3. ASSUME NEW s \in SUBSET W, s # {}, s \ {PickView[s]} \in Good PROVE s \in Good
  <2> DEFINE w == PickView[s]
             r == s \ {w}
             U == V \union r
  <2>1. /\ w \in NodeView /\ s \in SUBSET NodeView /\ IsFiniteSet(s) /\ U \in SUBSET NodeView
        /\ V \union s = U \union {w}
    BY <1>1, <1>3, FS_Subset DEF Picks
  <2>2. KeepAll(m, s) = Keep(KeepAll(m, r), w)
    BY <1>1, <1>3, <2>1, KeepSteps
  <2>3. Freshest(KeepAll(m, r), U)
    BY <1>3
  <2> HIDE DEF r, w, U
  <2>4. Freshest(Keep(KeepAll(m, r), w), U \union {w})
    BY <2>1, <2>3, KeepFreshest
  <2> QED
    BY <2>1, <2>2, <2>4
<1> HIDE DEF Good
<1>4. \A s \in SUBSET W : s # {} /\ s \ {PickView[s]} \in Good => s \in Good
  BY <1>3
<1>5. W \in Good
  BY <1>1, <1>2, <1>4, FoldInduction
<1> QED
  BY <1>5 DEF Good

Listed(parts, s) == UNION {parts[i].nodes : i \in s}

LEMMA ByIdFreshest ==
    ASSUME NEW parts, Lists(parts) PROVE Freshest(ById(parts), Listed(parts, 1 .. Len(parts)))
<1> DEFINE D == 1 .. Len(parts)
           pick == PickPart(Len(parts))
           f == PartFcn(parts)
           Good == {s \in SUBSET D : Freshest(f[s], Listed(parts, s))}
<1>0. DOMAIN parts = D /\ Len(parts) \in Nat /\ IsFiniteSet(D)
  <2>1. DOMAIN parts = D /\ Len(parts) \in Nat
    BY DEF Lists
  <2> QED
    BY <2>1, FS_Interval
<1>1. Picks(pick, D)
  BY <1>0, MaxExists DEF Picks, PickPart
<1>2. ById(parts) = f[D]
  BY <1>0 DEF ById, FoldLeft, MapThenFoldSet, PartFcn, NoNodes
<1>3. FoldsTo(f, D, NoNodes, pick, PartStep(parts)) /\ \A s \in SUBSET D : f[s] \in ByIds
  BY PartFolds
<1>4. \A i \in D : parts[i].nodes \in SUBSET NodeView /\ IsFiniteSet(parts[i].nodes)
  <2> SUFFICES ASSUME NEW i \in D
               PROVE  parts[i].nodes \in SUBSET NodeView /\ IsFiniteSet(parts[i].nodes)
    OBVIOUS
  <2>1. IsFiniteSet(parts[i].nodes) /\ parts[i] \in Counters
    BY DEF Lists
  <2> QED
    BY <2>1 DEF Counters
<1> HIDE DEF D, pick, f
<1>5. {} \in Good
  <2>1. f[{}] = NoNodes
    BY <1>3 DEF FoldsTo
  <2>2. Listed(parts, {}) = {} /\ NoNodes \in [{} -> NodeView] /\ DOMAIN NoNodes = {}
    BY DEF Listed, NoNodes
  <2>3. Freshest(NoNodes, {})
    <3>1. NoNodes \in ByIds
      BY <2>2 DEF ByIds
    <3> QED
      BY <2>2, <3>1, FS_EmptySet DEF Freshest
  <2> QED
    BY <2>1, <2>2, <2>3
<1>6. ASSUME NEW s \in SUBSET D, s # {}, s \ {pick[s]} \in Good PROVE s \in Good
  <2> DEFINE i == pick[s]
             r == s \ {i}
             V == Listed(parts, r)
             W == parts[i].nodes
  <2>1. i \in s /\ i \in D /\ r \in SUBSET D
    BY <1>1, <1>6 DEF Picks
  <2>2. f[s] = KeepAll(f[r], W)
    <3>1. f[s] = PartStep(parts)[i][f[r]]
      BY <1>3, <1>6 DEF FoldsTo
    <3>2. f[r] \in ByIds
      BY <1>3, <2>1
    <3> QED
      BY <2>1, <3>1, <3>2 DEF PartStep, D
  <2>3. V \in SUBSET NodeView /\ W \in SUBSET NodeView /\ IsFiniteSet(W)
    BY <1>4, <2>1 DEF Listed
  <2>4. Listed(parts, s) = V \union W
    BY <2>1 DEF Listed
  <2>5. Freshest(f[r], V)
    BY <1>6
  <2> HIDE DEF V, W, r, i
  <2>6. Freshest(KeepAll(f[r], W), V \union W)
    BY <2>3, <2>5, KeepAllFreshest
  <2> QED
    BY <2>2, <2>4, <2>6
<1> HIDE DEF Good
<1>7. \A s \in SUBSET D : s # {} /\ s \ {pick[s]} \in Good => s \in Good
  BY <1>6
<1>8. D \in Good
  BY <1>0, <1>1, <1>5, <1>7, FoldInduction
<1> QED
  BY <1>2, <1>8 DEF Good, D

-----------------------------------------------------------------------------
(* The views are those of the entries, with or without their histories. *)
Saw(V, entries) ==
    /\ \A v \in V : \E e \in entries : v \in {Classify(e, d) : d \in BOOLEAN}
    /\ \A e \in entries : \E v \in V : v \in {Classify(e, d) : d \in BOOLEAN}

LEMMA ClassifyKeeps == \A e, d : Classify(e, d).node = e.node /\ Classify(e, d).lastSeen = e.lastSeen
BY DEF Classify

LEMMA SawNames ==
    ASSUME NEW V, NEW entries, Saw(V, entries)
    PROVE  {v.node : v \in V} = {e.node : e \in entries}
<1>1. \A v \in V : \E e \in entries : v.node = e.node
  BY ClassifyKeeps DEF Saw
<1>2. \A e \in entries : \E v \in V : v.node = e.node
  BY ClassifyKeeps DEF Saw
<1> QED
  BY <1>1, <1>2

(* The views kept, one for each node, counted again. *)
LEMMA KeptReflects ==
    ASSUME NEW V \in SUBSET NodeView, NEW m, Freshest(m, V), NEW entries, Saw(V, entries)
    PROVE  Tally(Range(m)) \in Counters /\ Reflects(Tally(Range(m)), entries)
<1> DEFINE R == Range(m)
           r == Tally(R)
           N == {e.node : e \in entries}
<1>1. /\ IsFiniteSet(DOMAIN m) /\ DOMAIN m = N
      /\ \A n \in DOMAIN m : /\ m[n] \in V /\ m[n].node = n
                             /\ \A v \in V : v.node = n => m[n].lastSeen <= v.lastSeen
      /\ m = [n \in DOMAIN m |-> m[n]]
  BY SawNames DEF Freshest, ByIds
<1>2. R = {m[n] : n \in N} /\ R \in SUBSET NodeView
  BY <1>1 DEF Range
<1>3. IsFiniteSet(R) /\ Cardinality(R) = Cardinality(N)
  <2>1. m \in [N -> R] /\ \A v \in R : \E n \in N : m[n] = v
    BY <1>1, <1>2
  <2>2. \A n, k \in N : m[n] = m[k] => n = k
    BY <1>1
  <2> HIDE DEF R, N
  <2>3. m \in Bijection(N, R)
    BY <2>1, <2>2 DEF Bijection, Injection, Surjection, IsInjective
  <2>4. ExistsBijection(N, R)
    BY <2>3 DEF ExistsBijection
  <2> QED
    BY <1>1, <2>4, FS_Bijection
<1>4. Tallied(r, R) /\ r \in Counters
  <2> HIDE DEF R
  <2> QED
    BY <1>2, <1>3, TallyTallies, TallySteps
<1>5. r.nodes = R
  BY <1>4 DEF Tallied
<1>6. {v.node : v \in R} = N
  BY <1>1, <1>2
<1>7. ASSUME NEW v \in R
      PROVE  /\ \E e \in entries : v \in {Classify(e, d) : d \in BOOLEAN}
             /\ \A e \in entries : e.node = v.node => v.lastSeen <= e.lastSeen
  <2>1. PICK n \in N : v = m[n]
    BY <1>2
  <2>2. v \in V /\ v.node = n /\ \A w \in V : w.node = n => v.lastSeen <= w.lastSeen
    BY <1>1, <2>1
  <2>3. \A e \in entries : \E w \in V : w.node = e.node /\ w.lastSeen = e.lastSeen
    BY ClassifyKeeps DEF Saw
  <2>4. \A e \in entries : e.node = v.node => v.lastSeen <= e.lastSeen
    BY <2>2, <2>3
  <2> QED
    BY <2>2, <2>4 DEF Saw
<1>8. /\ r.total = Cardinality(R) /\ \A x \in Role : r.by[x] = Cardinality({v \in R : v.role = x})
      /\ r.runningJobs = Jobs({v \in R : v.role = "worker"})
  BY <1>4 DEF Tallied, OfRole
<1> HIDE DEF r, R, N
<1>9. Reflects(r, entries)
  BY <1>3, <1>5, <1>6, <1>7, <1>8 DEF Reflects, N
<1> QED
  BY <1>4, <1>9 DEF r, R

(* Whatever parts the console is given, in whatever order they arrived: what it      *)
(* merges them into reflects all the entries that the parts are about            *)
(* (mergeRollups: "Prefer the freshest").                                       *)
THEOREM MergeReflects ==
    ASSUME NEW parts, Lists(parts),
           NEW entries, Saw(Listed(parts, 1 .. Len(parts)), entries)
    PROVE  MergeRollups(parts) \in Counters /\ Reflects(MergeRollups(parts), entries)
<1> DEFINE V == Listed(parts, 1 .. Len(parts))
<1>1. V \in SUBSET NodeView
  <2>1. \A i \in 1 .. Len(parts) : parts[i] \in Counters
    BY DEF Lists
  <2>2. \A i \in 1 .. Len(parts) : parts[i].nodes \subseteq NodeView
    BY <2>1 DEF Counters
  <2> QED
    BY <2>2 DEF Listed
<1>2. Freshest(ById(parts), V)
  BY ByIdFreshest
<1> HIDE DEF V
<1>3. Saw(V, entries)
  BY DEF V
<1> QED
  BY <1>1, <1>2, <1>3, KeptReflects DEF MergeRollups

LEMMA ViewsSaw == ASSUME NEW A, NEW flaky PROVE Saw(Views(A, flaky), A)
BY DEF Saw, Views, View

(* The rollup of a delegate reflects the atlas of its node, whichever histories it   *)
(* could not read and in whatever order the atlas lists its nodes (rollup).        *)
THEOREM RollupReflects ==
    ASSUME NEW A \in SUBSET AtlasEntry, IsFiniteSet(A), OnePerNode(A), NEW flaky
    PROVE  Reflects(RollupOf(A, flaky), A)
<1> DEFINE V == Views(A, flaky)
           N == {e.node : e \in A}
           r == RollupOf(A, flaky)
<1>1. Saw(V, A) /\ Tallied(r, V) /\ IsFiniteSet(V)
  BY ViewsSaw, RollupTallies, RollupLists
<1>2. {v.node : v \in V} = N
  BY <1>1, SawNames
<1>3. ASSUME NEW v \in V, NEW e \in A, e.node = v.node
      PROVE  v.lastSeen <= e.lastSeen
  <2>1. PICK d \in A : v.node = d.node /\ v.lastSeen = d.lastSeen
    BY <1>1, ClassifyKeeps DEF Saw
  <2>2. d = e
    BY <1>3, <2>1 DEF OnePerNode
  <2> QED
    BY <2>1, <2>2 DEF AtlasEntry
<1>4. Cardinality(V) = Cardinality(N)
  <2> DEFINE name == [v \in V |-> v.node]
  <2>1. name \in [V -> N] /\ \A n \in N : \E v \in V : name[v] = n
    BY <1>2
  <2>2. ASSUME NEW v \in V, NEW w \in V, name[v] = name[w] PROVE v = w
    <3>1. PICK e \in A, d \in A : v = View(e, flaky) /\ w = View(d, flaky)
      BY DEF Views
    <3>2. e.node = d.node
      BY <2>2, <3>1, ClassifyKeeps DEF View
    <3> QED
      BY <3>1, <3>2 DEF OnePerNode
  <2> HIDE DEF name, V, N
  <2>3. name \in Bijection(V, N)
    BY <2>1, <2>2 DEF Bijection, Injection, Surjection, IsInjective
  <2>4. ExistsBijection(V, N)
    BY <2>3 DEF ExistsBijection
  <2> QED
    BY <1>1, <2>4, FS_Bijection
<1>5. /\ r.nodes = V /\ r.total = Cardinality(V)
      /\ \A x \in Role : r.by[x] = Cardinality({v \in V : v.role = x})
      /\ r.runningJobs = Jobs({v \in V : v.role = "worker"})
  BY <1>1 DEF Tallied, OfRole
<1>6. \A v \in V : \E e \in A : v \in {Classify(e, d) : d \in BOOLEAN}
  BY <1>1 DEF Saw
<1> HIDE DEF V, r, N
<1>7. Reflects(r, A)
  BY <1>2, <1>3, <1>4, <1>5, <1>6 DEF Reflects, N
<1> QED
  BY <1>7 DEF r

(* Two views of one node with the same age say the same. *)
NoTies(V) == \A v \in V, w \in V : v.node = w.node /\ v.lastSeen = w.lastSeen => v = w

(* The console lists its delegates' answers as they arrive.  Unless two of them heard *)
(* of a node equally long ago and disagree on it, any order of arrival, and any       *)
(* distribution of the same views over the answers, shows the same (refresh).        *)
THEOREM ArrivalOrder ==
    ASSUME NEW p, Lists(p), NEW q, Lists(q),
           Listed(p, 1 .. Len(p)) = Listed(q, 1 .. Len(q)), NoTies(Listed(p, 1 .. Len(p)))
    PROVE  MergeRollups(p) = MergeRollups(q)
<1> DEFINE V == Listed(p, 1 .. Len(p))
           m == ById(p)
           k == ById(q)
<1>1. Freshest(m, V) /\ Freshest(k, V)
  BY ByIdFreshest
<1>2. \A v \in V : v.lastSeen \in Nat
  <2>1. \A i \in 1 .. Len(p) : p[i] \in Counters
    BY DEF Lists
  <2>2. V \subseteq NodeView
    BY <2>1 DEF Listed, Counters
  <2> QED
    BY <2>2 DEF NodeView
<1>3. NoTies(V)
  OBVIOUS
<1> HIDE DEF V, m, k
<1>4. DOMAIN m = DOMAIN k /\ m = [n \in DOMAIN m |-> m[n]] /\ k = [n \in DOMAIN k |-> k[n]]
  BY <1>1 DEF Freshest, ByIds
<1>5. ASSUME NEW n \in DOMAIN m PROVE m[n] = k[n]
  <2>1. m[n] \in V /\ k[n] \in V /\ m[n].node = n /\ k[n].node = n
    BY <1>1, <1>4 DEF Freshest
  <2>2. m[n].lastSeen <= k[n].lastSeen /\ k[n].lastSeen <= m[n].lastSeen
    BY <1>1, <1>4, <2>1 DEF Freshest
  <2>3. m[n].lastSeen = k[n].lastSeen
    BY <1>2, <2>1, <2>2
  <2> QED
    BY <1>3, <2>1, <2>3 DEF NoTies
<1>6. m = k
  BY <1>4, <1>5
<1> QED
  BY <1>6 DEF MergeRollups, m, k
=============================================================================
