---------------------------- MODULE ConsoleProofs ----------------------------
(* What the error line of the console is worth, for any number of delegates,       *)
(* overlapping refreshes and changes of the world.                               *)
EXTENDS Console, RollupProofs

From(ps) == {p.from : p \in Range(ps)}

(* What a refresh knows of a delegate whose fetch has ended; nothing is forgotten   *)
(* before the refresh returns.                                                   *)
Accounted(s, d) == d \in From(parts[s]) \union errors[s]
Polled == \A s \in Slot : \A d \in Delegate :
    stage[s] # "idle" /\ asked[s][d] = "settled" => Accounted(s, d)
AllPolled == \A s \in Slot : stage[s] \in {"reading", "read", "unread"} =>
    \A d \in Delegate : asked[s][d] = "settled"

Slots == /\ stage \in [Slot -> {"idle", "polling", "reading", "read", "unread"}]
         /\ asked \in [Slot -> [Delegate -> {"health", "rollup", "settled"}]]
         /\ parts \in [Slot -> Seq(Part)]
         /\ DOMAIN errors = Slot

ReportInv == Slots /\ Polled /\ AllPolled /\ MissingIsReported

LEMMA FromAppend ==
    ASSUME NEW ps \in Seq(Part), NEW p PROVE From(Append(ps, p)) = From(ps) \union {p.from}
<1> DEFINE qs == Append(ps, p)
<1>1. /\ DOMAIN qs = 1 .. Len(ps) + 1 /\ qs[Len(ps) + 1] = p
      /\ \A i \in 1 .. Len(ps) : qs[i] = ps[i]
  OBVIOUS
<1>2. Range(ps) = {ps[i] : i \in 1 .. Len(ps)}
  BY DEF Range
<1>3. Range(qs) = Range(ps) \union {p}
  BY <1>1, <1>2 DEF Range
<1> QED
  BY <1>3 DEF From

(* A refresh that shows what it has accounts for every delegate. *)
LEMMA ShowReports ==
    ASSUME ReportInv, NEW s \in Slot, stage[s] # "idle", NEW rev, Show(s, rev),
           \A d \in Delegate : asked[s][d] = "settled"
    PROVE  MissingIsReported'
<1>1. \A d \in Delegate : d \in From(parts[s]) \union errors[s]
  BY DEF ReportInv, Polled, Accounted
<1>2. lastError' = errors[s]
  BY DEF Show, ErrorLine
<1>3. CASE parts[s] = <<>>
  <2>1. From(parts[s]) = {}
    BY <1>3 DEF From, Range
  <2>2. Delegate \subseteq lastError'
    BY <1>1, <1>2, <2>1
  <2> QED
    BY <2>2 DEF MissingIsReported
<1>4. CASE parts[s] # <<>>
  <2>1. shown' = parts[s]
    BY <1>4 DEF Show
  <2> QED
    BY <1>1, <1>2, <2>1 DEF MissingIsReported, From
<1> QED
  BY <1>3, <1>4

LEMMA EndKeeps ==
    ASSUME ReportInv, NEW s \in Slot, End(s), UNCHANGED asked
    PROVE  (Slots /\ Polled /\ AllPolled)'
<1>1. Slots'
  BY DEF End, DropParts, ReportInv, Slots
<1>2. \A t \in Slot : t # s => UNCHANGED <<stage[t], parts[t], errors[t]>>
  BY DEF End, DropParts, ReportInv, Slots
<1>3. stage'[s] = "idle"
  BY DEF End, ReportInv, Slots
<1> QED
  BY <1>1, <1>2, <1>3 DEF ReportInv, Polled, AllPolled, Accounted

LEMMA RefreshReports ==
    ASSUME ReportInv, NEW s \in Slot, Refresh(s) PROVE ReportInv'
<1> USE DEF ReportInv
<1>1. CASE Start(s)
  <2>1. /\ UNCHANGED <<parts, errors, lastUpdated, shown, lastError>>
        /\ stage' = [stage EXCEPT ![s] = "polling"]
        /\ asked' = [asked EXCEPT ![s] = [d \in Delegate |-> "health"]]
    BY <1>1 DEF Start, locals, state
  <2> QED
    BY <2>1 DEF Slots, Polled, AllPolled, Accounted, MissingIsReported
<1>2. ASSUME NEW d \in Delegate, Healthz(s, d) PROVE ReportInv'
  <2>1. /\ UNCHANGED <<stage, parts, errors, lastUpdated, shown, lastError>>
        /\ stage[s] = "polling" /\ asked' = [asked EXCEPT ![s][d] = "rollup"]
    BY <1>2 DEF Healthz, state
  <2> QED
    BY <2>1 DEF Slots, Polled, AllPolled, Accounted, MissingIsReported
<1>3. ASSUME NEW d \in Delegate, FetchRollup(s, d) PROVE ReportInv'
  <2>1. PICK x \in Answers : parts' = [parts EXCEPT ![s] = Append(@, [from |-> d, answer |-> x])]
    BY <1>3 DEF FetchRollup
  <2>2. /\ UNCHANGED <<stage, errors, lastUpdated, shown, lastError>>
        /\ stage[s] = "polling" /\ asked' = [asked EXCEPT ![s][d] = "settled"]
    BY <1>3 DEF FetchRollup, state
  <2> DEFINE p == [from |-> d, answer |-> x]
  <2>3. p \in Part /\ p.from = d
    BY DEF Part
  <2> HIDE DEF p
  <2>4. parts' = [parts EXCEPT ![s] = Append(parts[s], p)]
    BY <2>1 DEF p
  <2>5. From(parts'[s]) = From(parts[s]) \union {d} /\ \A t \in Slot : t # s => parts'[t] = parts[t]
    BY <2>3, <2>4, FromAppend DEF Slots
  <2>6. Slots'
    BY <2>2, <2>3, <2>4 DEF Slots
  <2>7. Polled'
    BY <2>2, <2>5 DEF Polled, Accounted, Slots
  <2> QED
    BY <2>2, <2>6, <2>7 DEF AllPolled, MissingIsReported
<1>4. ASSUME NEW d \in Delegate, FetchFails(s, d) PROVE ReportInv'
  <2>1. /\ UNCHANGED <<stage, parts, lastUpdated, shown, lastError>>
        /\ stage[s] = "polling" /\ asked' = [asked EXCEPT ![s][d] = "settled"]
        /\ errors' = [errors EXCEPT ![s] = @ \union {d}]
    BY <1>4 DEF FetchFails, Note, state
  <2> QED
    BY <2>1 DEF Slots, Polled, AllPolled, Accounted, MissingIsReported
<1>5. CASE AllSettled(s)
  <2>1. stage[s] = "polling" /\ \A d \in Delegate : asked[s][d] = "settled"
    BY <1>5 DEF AllSettled
  <2>2. CASE Show(s, Copy) /\ End(s)
    BY <1>5, <2>1, <2>2, ShowReports, EndKeeps DEF AllSettled
  <2>3. CASE ~(Show(s, Copy) /\ End(s))
    <3>1. /\ UNCHANGED <<parts, errors, asked, lastUpdated, shown, lastError>>
          /\ stage' = [stage EXCEPT ![s] = "reading"]
      BY <1>5, <2>3 DEF AllSettled, state
    <3> QED
      BY <2>1, <3>1 DEF Slots, Polled, AllPolled, Accounted, MissingIsReported
  <2> QED
    BY <2>2, <2>3
<1>6. CASE FetchRevoked(s)
  <2>1. /\ UNCHANGED <<parts, errors, asked, lastUpdated, shown, lastError>>
        /\ stage[s] = "reading" /\ \E x \in {"read", "unread"} : stage' = [stage EXCEPT ![s] = x]
    BY <1>6 DEF FetchRevoked, state
  <2> QED
    BY <2>1 DEF Slots, Polled, AllPolled, Accounted, MissingIsReported
<1>7. CASE Finish(s)
  <2>1. stage[s] # "idle" /\ \A d \in Delegate : asked[s][d] = "settled"
    BY <1>7 DEF Finish, AllPolled
  <2> QED
    BY <1>7, <2>1, ShowReports, EndKeeps DEF Finish
<1> QED
  BY <1>1, <1>2, <1>3, <1>4, <1>5, <1>6, <1>7 DEF Refresh

(* A delegate whose nodes are missing from the grid is named in the error line,     *)
(* however refreshes overlap and whatever fails (refresh of store.ts).             *)
THEOREM MissingIsAlwaysReported == Spec => []MissingIsReported
<1>1. Init => ReportInv
  BY DEF Init, ReportInv, Slots, Polled, AllPolled, MissingIsReported
<1>2. ReportInv /\ [Next]_vars => ReportInv'
  <2> SUFFICES ASSUME ReportInv, [Next]_vars PROVE ReportInv'
    OBVIOUS
  <2>1. CASE World \/ UNCHANGED vars
    <3>1. UNCHANGED <<stage, asked, parts, errors, lastUpdated, shown, lastError>>
      BY <2>1 DEF World, Revoke, ModeChanges, AtlasChanges, vars, refreshes, locals, state
    <3> QED
      BY <3>1 DEF ReportInv, Slots, Polled, AllPolled, Accounted, MissingIsReported
  <2> QED
    BY <2>1, RefreshReports DEF Next
<1>3. ReportInv => MissingIsReported
  BY DEF ReportInv
<1> QED
  BY <1>1, <1>2, <1>3, PTL DEF Spec
-----------------------------------------------------------------------------
(* What is shown is what the parts say, and the parts are answers of delegates that  *)
(* were asked once each.                                                          *)
Rollups(ps) == [i \in DOMAIN ps |-> ps[i].answer.rollup]
Entries(ps) == UNION {p.answer.atlas : p \in Range(ps)}

LEMMA AnswerTypes ==
    ASSUME NEW x \in Answers
    PROVE  /\ x.rollup \in Counters /\ IsFiniteSet(x.rollup.nodes) /\ Saw(x.rollup.nodes, x.atlas)
           /\ x.atlas \in Atlases
<1>1. PICK a \in Atlases, f \in Flaky : x = [atlas |-> a, rollup |-> RollupOf(a, f)]
  BY DEF Answers
<1>2. a \in SUBSET AtlasEntry /\ IsFiniteSet(a)
  BY ConsoleAssumption
<1>3. /\ RollupOf(a, f) \in Counters /\ RollupOf(a, f).nodes = Views(a, f)
      /\ IsFiniteSet(Views(a, f)) /\ Saw(Views(a, f), a)
  BY <1>2, RollupLists, ViewsSaw
<1> QED
  BY <1>1, <1>3

LEMMA FromDelegates ==
    ASSUME NEW ps \in Seq(Part), NEW i \in DOMAIN ps PROVE ps[i].from \in Delegate
<1>1. ps[i] \in Part
  OBVIOUS
<1> QED
  BY <1>1 DEF Part

(* A grid made of any list of parts is what their delegates saw. *)
LEMMA PartsReflect ==
    ASSUME NEW ps \in Seq(Part)
    PROVE  /\ MergeRollups(Rollups(ps)) \in Counters
           /\ Reflects(MergeRollups(Rollups(ps)), Entries(ps))
<1> DEFINE rs == Rollups(ps)
           n == Len(ps)
<1>1. n \in Nat /\ DOMAIN ps = 1 .. n /\ \A i \in 1 .. n : ps[i] \in Part
  OBVIOUS
<1>2. ASSUME NEW i \in 1 .. n
      PROVE  /\ rs[i] \in Counters /\ IsFiniteSet(rs[i].nodes)
             /\ Saw(rs[i].nodes, ps[i].answer.atlas)
  <2>1. ps[i].answer \in Answers /\ rs[i] = ps[i].answer.rollup
    BY <1>1 DEF Rollups, Part
  <2> QED
    BY <2>1, AnswerTypes
<1>3. rs \in Seq(Counters) /\ Len(rs) = n
  <2>1. rs = [i \in 1 .. n |-> rs[i]]
    BY <1>1 DEF Rollups
  <2> HIDE DEF rs
  <2>2. rs \in [1 .. n -> Counters]
    BY <1>2, <2>1
  <2> QED
    BY <1>1, <2>2
<1> HIDE DEF rs
<1>4. Lists(rs)
  BY <1>2, <1>3 DEF Lists
<1>5. Saw(Listed(rs, 1 .. Len(rs)), Entries(ps))
  <2>1. Entries(ps) = UNION {ps[i].answer.atlas : i \in 1 .. n}
    BY <1>1 DEF Entries, Range
  <2>2. Listed(rs, 1 .. Len(rs)) = UNION {rs[i].nodes : i \in 1 .. n}
    BY <1>3 DEF Listed
  <2>3. \A i \in 1 .. n : /\ \A v \in rs[i].nodes :
                               \E e \in ps[i].answer.atlas : v \in {Classify(e, d) : d \in BOOLEAN}
                          /\ \A e \in ps[i].answer.atlas :
                               \E v \in rs[i].nodes : v \in {Classify(e, d) : d \in BOOLEAN}
    BY <1>2 DEF Saw
  <2>4. ASSUME NEW v \in Listed(rs, 1 .. Len(rs))
        PROVE  \E e \in Entries(ps) : v \in {Classify(e, d) : d \in BOOLEAN}
    <3>1. PICK i \in 1 .. n : v \in rs[i].nodes
      BY <2>2, <2>4
    <3>2. PICK e \in ps[i].answer.atlas : v \in {Classify(e, d) : d \in BOOLEAN}
      BY <2>3, <3>1
    <3>3. e \in Entries(ps)
      BY <2>1, <3>2
    <3> QED
      BY <3>2, <3>3
  <2>5. ASSUME NEW e \in Entries(ps)
        PROVE  \E v \in Listed(rs, 1 .. Len(rs)) : v \in {Classify(e, d) : d \in BOOLEAN}
    BY <2>1, <2>2, <2>3
  <2> QED
    BY <2>4, <2>5 DEF Saw
<1> QED
  BY <1>4, <1>5, MergeReflects DEF rs

WorldTypes == /\ mode \in [Delegate -> {"up", "noMesh", "down"}]
              /\ atlas \in [Delegate -> Atlases] /\ onChain \subseteq Revocation
LocalTypes == /\ Slots /\ health \in [Slot -> [Delegate -> BOOLEAN]]
              /\ errors \in [Slot -> SUBSET Delegate] /\ known \in [Slot -> SUBSET Revocation]
StateTypes == /\ delegateHealth \in [Delegate -> BOOLEAN] /\ rollup \in Counters
              /\ revoked \subseteq Revocation /\ lastUpdated \in BOOLEAN
              /\ lastError \subseteq Delegate /\ shown \in Seq(Part)

AskedOnce == \A s \in Slot :
    /\ stage[s] = "idle" => parts[s] = <<>>
    /\ \A i \in DOMAIN parts[s] : asked[s][parts[s][i].from] = "settled"
    /\ \A i \in DOMAIN parts[s], j \in DOMAIN parts[s] :
          parts[s][i].from = parts[s][j].from => i = j

Merged == lastUpdated => rollup = MergeRollups(Rollups(shown))

Flags == overtaken \in [Slot -> BOOLEAN]

StoreInv == WorldTypes /\ Flags /\ LocalTypes /\ StateTypes /\ AskedOnce /\ Merged

LEMMA ShowKeeps ==
    ASSUME StoreInv, NEW s \in Slot, NEW rev \in SUBSET Revocation, Show(s, rev)
    PROVE  (StateTypes /\ Merged)'
<1> USE DEF StoreInv
<1>1. parts[s] \in Seq(Part) /\ health[s] \in [Delegate -> BOOLEAN] /\ errors[s] \in SUBSET Delegate
  BY DEF LocalTypes, Slots
<1>2. delegateHealth' = health[s] /\ revoked' = rev /\ lastError' = errors[s]
  BY DEF Show, ErrorLine
<1>3. CASE parts[s] = <<>>
  <2>1. UNCHANGED <<rollup, lastUpdated, shown>>
    BY <1>3 DEF Show
  <2> QED
    BY <1>1, <1>2, <2>1 DEF StateTypes, Merged
<1>4. CASE parts[s] # <<>>
  <2>1. rollup' = MergeRollups(Rollups(parts[s])) /\ lastUpdated' = TRUE /\ shown' = parts[s]
    BY <1>4 DEF Show, Rollups
  <2>2. MergeRollups(Rollups(parts[s])) \in Counters
    BY <1>1, PartsReflect
  <2> QED
    BY <1>1, <1>2, <2>1, <2>2 DEF StateTypes, Merged
<1> QED
  BY <1>3, <1>4

LEMMA EndForgets ==
    ASSUME StoreInv, NEW s \in Slot, End(s), UNCHANGED asked
    PROVE  (LocalTypes /\ AskedOnce)'
<1> USE DEF StoreInv
<1>1. /\ stage' = [stage EXCEPT ![s] = "idle"] /\ parts' = [parts EXCEPT ![s] = <<>>]
      /\ health' = [health EXCEPT ![s] = [d \in Delegate |-> FALSE]]
      /\ errors' = [errors EXCEPT ![s] = {}] /\ known' = [known EXCEPT ![s] = {}]
  BY DEF End, DropParts
<1>2. <<>> \in Seq(Part)
  OBVIOUS
<1>3. LocalTypes'
  BY <1>1, <1>2 DEF LocalTypes, Slots
<1>4. parts'[s] = <<>> /\ \A t \in Slot : t # s => UNCHANGED <<stage[t], parts[t]>>
  BY <1>1 DEF LocalTypes, Slots
<1>5. AskedOnce'
  BY <1>4 DEF AskedOnce
<1> QED
  BY <1>3, <1>5

(* The part of a delegate that is asked for the first time is a part of its own. *)
LEMMA FetchOnce ==
    ASSUME StoreInv, NEW s \in Slot, NEW d \in Delegate, FetchRollup(s, d)
    PROVE  (LocalTypes /\ AskedOnce)'
<1> USE DEF StoreInv
<1>1. /\ stage[s] = "polling" /\ asked[s][d] = "rollup"
      /\ asked' = [asked EXCEPT ![s][d] = "settled"]
      /\ UNCHANGED <<stage, health, errors, known>>
  BY DEF FetchRollup
<1>2. PICK x \in Answers : parts' = [parts EXCEPT ![s] = Append(@, [from |-> d, answer |-> x])]
  BY DEF FetchRollup
<1> DEFINE p == [from |-> d, answer |-> x]
           ps == parts[s]
           qs == parts'[s]
<1>3. p \in Part /\ p.from = d
  BY DEF Part
<1>4. /\ stage \in [Slot -> {"idle", "polling", "reading", "read", "unread"}]
      /\ asked \in [Slot -> [Delegate -> {"health", "rollup", "settled"}]]
      /\ parts \in [Slot -> Seq(Part)] /\ ps \in Seq(Part)
  BY DEF LocalTypes, Slots
<1>5. qs = Append(ps, p) /\ \A t \in Slot : t # s => parts'[t] = parts[t]
  BY <1>2, <1>4
<1>6. parts' \in [Slot -> Seq(Part)] /\ asked' \in [Slot -> [Delegate -> {"health", "rollup", "settled"}]]
  BY <1>1, <1>2, <1>3, <1>4
<1>7. LocalTypes'
  BY <1>1, <1>4, <1>6 DEF LocalTypes, Slots
<1> HIDE DEF p
<1>8. /\ DOMAIN qs = 1 .. Len(ps) + 1 /\ DOMAIN ps = 1 .. Len(ps) /\ Len(ps) \in Nat
      /\ qs[Len(ps) + 1] = p /\ \A i \in 1 .. Len(ps) : qs[i] = ps[i]
  BY <1>3, <1>4, <1>5
<1>9. \A e \in Delegate : asked'[s][e] = IF e = d THEN "settled" ELSE asked[s][e]
  BY <1>1, <1>4
<1>10. \A t \in Slot : t # s => asked'[t] = asked[t]
  BY <1>1, <1>4
<1>11. \A i \in 1 .. Len(ps) : /\ ps[i].from # d /\ ps[i].from \in Delegate
                               /\ asked[s][ps[i].from] = "settled"
  <2> SUFFICES ASSUME NEW i \in 1 .. Len(ps)
               PROVE  ps[i].from # d /\ ps[i].from \in Delegate /\ asked[s][ps[i].from] = "settled"
    OBVIOUS
  <2>1. asked[s][ps[i].from] = "settled"
    BY <1>8 DEF AskedOnce
  <2>2. ps[i] \in Part
    BY <1>4, <1>8
  <2> QED
    BY <1>1, <2>1, <2>2 DEF Part
<1>12. \A i, j \in 1 .. Len(ps) : ps[i].from = ps[j].from => i = j
  BY <1>8 DEF AskedOnce
<1> HIDE DEF ps, qs
<1>13. ASSUME NEW i \in DOMAIN qs PROVE asked'[s][qs[i].from] = "settled"
  <2>1. CASE i \in 1 .. Len(ps)
    BY <1>8, <1>9, <1>11, <2>1
  <2>2. CASE i = Len(ps) + 1
    BY <1>3, <1>8, <1>9, <2>2
  <2> QED
    BY <1>8, <2>1, <2>2
<1>14. ASSUME NEW i \in DOMAIN qs, NEW j \in DOMAIN qs, qs[i].from = qs[j].from PROVE i = j
  <2>1. \A k \in DOMAIN qs : k \in 1 .. Len(ps) \/ k = Len(ps) + 1
    BY <1>8
  <2>2. \A k \in DOMAIN qs : qs[k].from = d <=> k = Len(ps) + 1
    BY <1>3, <1>8, <1>11, <2>1
  <2> QED
    BY <1>8, <1>12, <1>14, <2>1, <2>2
<1>15. AskedOnce'
  <2> SUFFICES ASSUME NEW t \in Slot
               PROVE  /\ stage'[t] = "idle" => parts'[t] = <<>>
                      /\ \A i \in DOMAIN parts'[t] : asked'[t][parts'[t][i].from] = "settled"
                      /\ \A i \in DOMAIN parts'[t], j \in DOMAIN parts'[t] :
                            parts'[t][i].from = parts'[t][j].from => i = j
    BY DEF AskedOnce
  <2>1. CASE t # s
    BY <1>1, <1>5, <1>10, <2>1 DEF AskedOnce
  <2>2. CASE t = s
    BY <1>1, <1>13, <1>14, <2>2 DEF qs
  <2> QED
    BY <2>1, <2>2
<1> QED
  BY <1>7, <1>15

LEMMA RefreshStores ==
    ASSUME StoreInv, NEW s \in Slot, Refresh(s) PROVE StoreInv'
<1> USE DEF StoreInv
<1>0. UNCHANGED <<mode, atlas, onChain>>
  BY DEF Refresh, Start, Healthz, FetchRollup, FetchFails, AllSettled, FetchRevoked, Finish, world
<1>1. WorldTypes' /\ Flags'
  <2>1. WorldTypes'
    BY <1>0 DEF WorldTypes
  <2>2. Flags'
    <3>1. overtaken' \in [Slot -> BOOLEAN] \/ UNCHANGED overtaken
      BY DEF Refresh, Start, Healthz, FetchRollup, FetchFails, AllSettled, FetchRevoked, Finish
    <3> QED
      BY <3>1 DEF Flags
  <2> QED
    BY <2>1, <2>2
<1>2. UNCHANGED state => (StateTypes /\ Merged)'
  BY DEF state, StateTypes, Merged
<1>3. CASE Start(s)
  <2>1. /\ UNCHANGED <<health, parts, errors, known>> /\ UNCHANGED state /\ stage[s] = "idle"
        /\ stage' = [stage EXCEPT ![s] = "polling"]
        /\ asked' = [asked EXCEPT ![s] = [d \in Delegate |-> "health"]]
    BY <1>3 DEF Start, locals
  <2>2. LocalTypes'
    BY <2>1 DEF LocalTypes, Slots
  <2>3. AskedOnce'
    BY <2>1 DEF AskedOnce, LocalTypes, Slots
  <2> QED
    BY <1>1, <1>2, <2>1, <2>2, <2>3
<1>4. ASSUME NEW d \in Delegate, Healthz(s, d) PROVE StoreInv'
  <2>1. /\ UNCHANGED <<stage, parts, errors, known>> /\ UNCHANGED state
        /\ health' = [health EXCEPT ![s][d] = mode[d] # "down"]
        /\ asked' = [asked EXCEPT ![s][d] = "rollup"] /\ asked[s][d] = "health"
    BY <1>4 DEF Healthz
  <2>2. LocalTypes'
    BY <2>1 DEF LocalTypes, Slots
  <2>3. \A t \in Slot, e \in Delegate : asked[t][e] = "settled" => asked'[t][e] = "settled"
    BY <2>1 DEF LocalTypes, Slots
  <2>4. \A t \in Slot : \A i \in DOMAIN parts[t] : parts[t][i].from \in Delegate
    BY FromDelegates DEF LocalTypes, Slots
  <2>5. AskedOnce'
    BY <2>1, <2>3, <2>4 DEF AskedOnce
  <2> QED
    BY <1>1, <1>2, <2>1, <2>2, <2>5
<1>5. ASSUME NEW d \in Delegate, FetchRollup(s, d) PROVE StoreInv'
  BY <1>1, <1>2, <1>5, FetchOnce DEF FetchRollup
<1>6. ASSUME NEW d \in Delegate, FetchFails(s, d) PROVE StoreInv'
  <2>1. /\ UNCHANGED <<stage, health, parts, known>> /\ UNCHANGED state
        /\ errors' = [errors EXCEPT ![s] = @ \union {d}]
        /\ asked' = [asked EXCEPT ![s][d] = "settled"]
    BY <1>6 DEF FetchFails, Note
  <2>2. LocalTypes'
    BY <2>1 DEF LocalTypes, Slots
  <2>3. \A t \in Slot, e \in Delegate : asked[t][e] = "settled" => asked'[t][e] = "settled"
    BY <2>1 DEF LocalTypes, Slots
  <2>4. \A t \in Slot : \A i \in DOMAIN parts[t] : parts[t][i].from \in Delegate
    BY FromDelegates DEF LocalTypes, Slots
  <2>5. AskedOnce'
    BY <2>1, <2>3, <2>4 DEF AskedOnce
  <2> QED
    BY <1>1, <1>2, <2>1, <2>2, <2>5
<1>7. revoked \in SUBSET Revocation /\ known[s] \in SUBSET Revocation /\ onChain \in SUBSET Revocation
  BY DEF StateTypes, LocalTypes, WorldTypes
<1>8. CASE AllSettled(s)
  <2>1. CASE Show(s, Copy) /\ End(s)
    BY <1>1, <1>7, <1>8, <2>1, ShowKeeps, EndForgets DEF AllSettled, Copy
  <2>2. CASE ~(Show(s, Copy) /\ End(s))
    <3>1. /\ UNCHANGED <<asked, health, parts, errors>> /\ UNCHANGED state
          /\ stage[s] = "polling" /\ stage' = [stage EXCEPT ![s] = "reading"]
          /\ known' = [known EXCEPT ![s] = Copy]
      BY <1>8, <2>2 DEF AllSettled
    <3>2. LocalTypes'
      BY <1>7, <3>1 DEF LocalTypes, Slots, Copy
    <3>3. AskedOnce'
      BY <3>1 DEF AskedOnce, LocalTypes, Slots
    <3> QED
      BY <1>1, <1>2, <3>1, <3>2, <3>3
  <2> QED
    BY <2>1, <2>2
<1>9. CASE FetchRevoked(s)
  <2>1. /\ UNCHANGED <<asked, health, parts, errors>> /\ UNCHANGED state /\ stage[s] = "reading"
        /\ \E x \in {"read", "unread"} : stage' = [stage EXCEPT ![s] = x]
        /\ known' = [known EXCEPT ![s] = onChain] \/ known' = known
    BY <1>9 DEF FetchRevoked
  <2>2. LocalTypes'
    BY <1>7, <2>1 DEF LocalTypes, Slots
  <2>3. AskedOnce'
    BY <2>1 DEF AskedOnce, LocalTypes, Slots
  <2> QED
    BY <1>1, <1>2, <2>1, <2>2, <2>3
<1>10. CASE Finish(s)
  BY <1>1, <1>7, <1>10, ShowKeeps, EndForgets DEF Finish
<1> QED
  BY <1>3, <1>4, <1>5, <1>6, <1>8, <1>9, <1>10 DEF Refresh

LEMMA StoreAlways == Spec => []StoreInv
<1>1. Init => StoreInv
  <2> SUFFICES ASSUME Init PROVE StoreInv
    OBVIOUS
  <2>1. WorldTypes /\ Flags
    BY ConsoleAssumption DEF Init, WorldTypes, Flags
  <2>2. LocalTypes /\ AskedOnce
    BY DEF Init, LocalTypes, Slots, AskedOnce
  <2>3. StateTypes /\ Merged
    <3>1. <<>> \in Seq(Part)
      OBVIOUS
    <3>2. ~lastUpdated
      BY DEF Init
    <3>3. StateTypes
      BY <3>1, EmptyType DEF Init, StateTypes
    <3> QED
      BY <3>2, <3>3 DEF Merged
  <2> QED
    BY <2>1, <2>2, <2>3 DEF StoreInv
<1>2. StoreInv /\ [Next]_vars => StoreInv'
  <2> SUFFICES ASSUME StoreInv, [Next]_vars PROVE StoreInv'
    OBVIOUS
  <2>1. CASE World \/ UNCHANGED vars
    <3>1. /\ UNCHANGED <<stage, asked, health, parts, errors, known>>
          /\ UNCHANGED <<delegateHealth, rollup, revoked, lastUpdated, lastError, shown>>
      BY <2>1 DEF World, Revoke, ModeChanges, AtlasChanges, vars, refreshes, locals, state
    <3>2. WorldTypes' /\ Flags'
      BY <2>1 DEF World, Revoke, ModeChanges, AtlasChanges, vars, world, refreshes, StoreInv,
                  WorldTypes, Flags
    <3> QED
      BY <3>1, <3>2 DEF StoreInv, LocalTypes, Slots, StateTypes, AskedOnce, Merged
  <2> QED
    BY <2>1, RefreshStores DEF Next
<1> QED
  BY <1>1, <1>2, PTL DEF Spec

(* The grid and the headline are what the delegates saw that answered, for any       *)
(* number of delegates, atlases and overlapping refreshes (mergeRollups, refresh). *)
THEOREM ShownIsAlwaysWhatDelegatesSaw == Spec => []ShownIsWhatDelegatesSaw
<1>1. StoreInv => ShownIsWhatDelegatesSaw
  BY PartsReflect DEF StoreInv, StateTypes, Merged, ShownIsWhatDelegatesSaw, Entries
<1> QED
  BY <1>1, StoreAlways, PTL

(* Delegates that are asked once each fill no more places than there are delegates. *)
LEMMA PartsFit ==
    ASSUME NEW ps \in Seq(Part),
           \A i \in DOMAIN ps, j \in DOMAIN ps : ps[i].from = ps[j].from => i = j
    PROVE  Len(ps) <= Len(Delegates)
<1> DEFINE n == Len(ps)
           m == Len(Delegates)
           from == [i \in 1 .. n |-> ps[i].from]
<1>1. n \in Nat /\ m \in Nat /\ DOMAIN ps = 1 .. n /\ DOMAIN Delegates = 1 .. m
  BY ConsoleAssumption
<1>2. /\ IsFiniteSet(1 .. n) /\ Cardinality(1 .. n) = n
      /\ IsFiniteSet(1 .. m) /\ Cardinality(1 .. m) = m
  <2>1. \A k \in Nat : IsFiniteSet(1 .. k) /\ Cardinality(1 .. k) = IF 1 > k THEN 0 ELSE k - 1 + 1
    BY FS_Interval
  <2> HIDE DEF n, m
  <2> QED
    BY <1>1, <2>1
<1>3. \A i \in 1 .. n : ps[i].from \in Delegate
  BY <1>1, FromDelegates
<1>4. from \in Injection(1 .. n, Delegate)
  BY <1>1, <1>3 DEF Injection, IsInjective
<1>5. Delegates \in Surjection(1 .. m, Delegate)
  BY <1>1, ConsoleAssumption DEF Surjection, Delegate, Range
<1> HIDE DEF n, m, from
<1>6. IsFiniteSet(Delegate) /\ Cardinality(Delegate) <= m
  BY <1>2, <1>5, FS_Surjection
<1>7. n <= Cardinality(Delegate)
  BY <1>2, <1>4, <1>6, FS_Injection
<1>8. Cardinality(Delegate) \in Nat
  BY <1>6, FS_CardinalityType
<1> QED
  BY <1>1, <1>6, <1>7, <1>8 DEF n, m

(* Every variable of the store keeps its type: no refresh lists a delegate twice. *)
THEOREM TypeCorrect == Spec => []TypeOK
<1>1. StoreInv => TypeOK
  <2> SUFFICES ASSUME StoreInv PROVE TypeOK
    OBVIOUS
  <2>1. \A ps \in Seq(Part) : Range(ps) \subseteq Part
    BY DEF Range
  <2>2. ASSUME NEW s \in Slot PROVE Len(parts[s]) <= Len(Delegates) /\ Range(parts[s]) \subseteq Part
    <3>1. parts[s] \in Seq(Part)
      BY DEF StoreInv, LocalTypes, Slots
    <3> QED
      BY <2>1, <3>1, PartsFit DEF StoreInv, AskedOnce
  <2>3. rollup.nodes \subseteq NodeView
    BY DEF StoreInv, StateTypes, Counters
  <2> QED
    BY <2>1, <2>2, <2>3 DEF StoreInv, WorldTypes, LocalTypes, StateTypes, Flags, Slots, TypeOK
<1> QED
  BY <1>1, StoreAlways, PTL

(* The copy of a refresh that no other one has overtaken is what is shown. *)
CopyIsShown == \A s \in Slot :
    stage[s] \in {"reading", "unread"} /\ ~overtaken[s] => known[s] = revoked

LEMMA FinishCopies ==
    ASSUME LocalTypes, CopyIsShown, NEW s \in Slot, Finish(s) PROVE CopyIsShown'
<1> SUFFICES ASSUME NEW q \in Slot, stage'[q] \in {"reading", "unread"}, ~overtaken'[q]
             PROVE  known'[q] = revoked'
  BY DEF CopyIsShown
<1>1. stage' = [stage EXCEPT ![s] = "idle"]
  BY DEF Finish, End
<1>2. q # s /\ stage'[q] = stage[q]
  BY <1>1 DEF LocalTypes, Slots
<1>3. overtaken'[q]
  BY <1>2 DEF Finish
<1> QED
  BY <1>3

(* A refresh that fails to read the revoked set keeps what is shown unless another   *)
(* has shown one in the meantime, for any number of overlapping refreshes           *)
(* (store.ts: "keep previous on a transient failure").                             *)
THEOREM KeptByAllNotOvertaken == Spec => KeptUnlessOvertaken
<1>1. Init => CopyIsShown
  BY DEF Init, CopyIsShown
<1>2. StoreInv /\ CopyIsShown /\ [Next]_vars => CopyIsShown'
  <2> SUFFICES ASSUME StoreInv, CopyIsShown, [Next]_vars PROVE CopyIsShown'
    OBVIOUS
  <2>0. /\ stage \in [Slot -> {"idle", "polling", "reading", "read", "unread"}]
        /\ known \in [Slot -> SUBSET Revocation]
    BY DEF StoreInv, LocalTypes, Slots
  <2>1. CASE World \/ UNCHANGED vars
    <3>1. UNCHANGED <<stage, known, revoked, overtaken>>
      BY <2>1 DEF World, Revoke, ModeChanges, AtlasChanges, vars, refreshes, locals, state
    <3> QED
      BY <3>1 DEF CopyIsShown
  <2>2. ASSUME NEW s \in Slot, Refresh(s) PROVE CopyIsShown'
    <3>1. CASE Start(s)
      BY <2>0, <3>1 DEF Start, locals, state, CopyIsShown
    <3>2. CASE \E d \in Delegate : Healthz(s, d) \/ FetchRollup(s, d) \/ FetchFails(s, d)
      BY <3>2 DEF Healthz, FetchRollup, FetchFails, state, CopyIsShown
    <3>3. CASE AllSettled(s)
      <4>1. CASE Show(s, Copy) /\ End(s)
        <5>1. revoked' = revoked /\ overtaken' = overtaken
          BY <3>3, <4>1 DEF AllSettled, Show, Copy
        <5> QED
          BY <2>0, <4>1, <5>1 DEF End, CopyIsShown
      <4>2. CASE ~(Show(s, Copy) /\ End(s))
        BY <2>0, <3>3, <4>2 DEF AllSettled, state, Copy, CopyIsShown
      <4> QED
        BY <4>1, <4>2
    <3>4. CASE FetchRevoked(s)
      BY <2>0, <3>4 DEF FetchRevoked, state, CopyIsShown
    <3>5. CASE Finish(s)
      BY <3>5, FinishCopies DEF StoreInv
    <3> QED
      BY <2>2, <3>1, <3>2, <3>3, <3>4, <3>5 DEF Refresh
  <2> QED
    BY <2>1, <2>2 DEF Next
<1>3. StoreInv /\ CopyIsShown /\ [Next]_vars =>
        [\A s \in Slot : stage[s] = "unread" /\ stage'[s] = "idle" /\ ~overtaken[s]
                         => revoked' = revoked]_vars
  <2> SUFFICES ASSUME StoreInv, CopyIsShown, Next, NEW s \in Slot,
                      stage[s] = "unread", stage'[s] = "idle", ~overtaken[s]
               PROVE  revoked' = revoked
    OBVIOUS
  <2>1. stage' # stage
    OBVIOUS
  <2>2. PICK q \in Slot : Refresh(q)
    BY <2>1 DEF Next, World, Revoke, ModeChanges, AtlasChanges, refreshes
  <2>3. q = s
    <3> SUFFICES ASSUME q # s PROVE stage'[s] = stage[s]
      OBVIOUS
    <3> QED
      BY <2>2 DEF Refresh, Start, Healthz, FetchRollup, FetchFails, AllSettled, FetchRevoked,
                  Finish, End, StoreInv, LocalTypes, Slots
  <2>4. Finish(s)
    BY <2>2, <2>3 DEF Refresh, Start, Healthz, FetchRollup, FetchFails, AllSettled, FetchRevoked
  <2> QED
    BY <2>4 DEF Finish, Show, CopyIsShown
<1> QED
  BY <1>1, <1>2, <1>3, StoreAlways, PTL DEF Spec, KeptUnlessOvertaken
=============================================================================
