---------------------------- MODULE RunAnaProofs ----------------------------
(***************************************************************************)
(* Theorems about RunAna for every input, every way to call the run and    *)
(* every time that may be drawn: the tasks of the run work on an event     *)
(* with the parameters of its run, or of the event before where the header *)
(* is filled late, the events have the right times, and they are those     *)
(* that were asked for, with all their friends.                            *)
(***************************************************************************)
EXTENDS RunAna, SequenceLemmas, SequenceTheorems, FiniteSetTheorems, TLAPS

-----------------------------------------------------------------------------
(* The inductive invariant. *)

\* The run of a mixed run: that of the first entry of the chain that names it.
MixedRun == (IF setup.runFrom = 0 THEN Chain ELSE setup.signals[setup.runFrom].events)[1].run

\* The tasks have the run the framework holds, which is that of the event while the tasks
\* work on it; where the header is filled late it is that of the event before.
RunsMatch ==
    IF IsMixed
    THEN outHeader.run = MixedRun /\ fEvtHeader.run = MixedRun /\ fRunId = MixedRun
         /\ taskRun = MixedRun
    ELSE /\ taskRun = IF setup.static THEN Chain[1].run ELSE fRunId
         /\ Method = "Run" /\ pc = "event" => fRunId = data.main.run
         /\ Method # "Run" => fEvtHeader.run = RunBefore(Len(seen) + 1)
         /\ Method # "Run" /\ pc = "event" => fRunId = RunBefore(Len(seen) + 1)

\* The entries asked for exist, as far as RunsMatch depends on them.
EntriesMatch ==
    /\ i \in Nat
    /\ pc \in {"loop", "event"} /\ Method \notin {"Run", "RunEventReco"} =>
         range.to = Len(setup.entries) /\ ~range.endless

\* What the tasks worked on, with the parameters of its run.
SeenMatch ==
    /\ \E S : seen \in Seq(S)
    /\ \A k \in DOMAIN seen :
         seen[k].run = IF IsMixed THEN MixedRun
                       ELSE IF setup.static THEN Chain[1].run
                       ELSE IF Method = "Run" THEN seen[k].event.run ELSE RunBefore(k)

ParametersInv ==
    /\ setup \in Setups
    /\ EntriesMatch
    /\ pc = "init" => seen = << >>
    /\ pc # "init" => RunsMatch
    /\ SeenMatch

-----------------------------------------------------------------------------
(* The operators the steps are built from. *)

\* The first entry of the chain that names the run is there, whatever was read before.
LEMMA MixedRunFirst ==
    ASSUME setup \in Setups, IsMixed, NEW d
    PROVE MixedEntry(setup.runFrom, 0, d).main.run = MixedRun
<1> DEFINE events == IF setup.runFrom = 0 THEN Chain ELSE setup.signals[setup.runFrom].events
<1>1. Len(events) \in Nat \ {0}
  BY SetupsAssumption DEF IsMixed, Chain
<1>2. MixedEntry(setup.runFrom, 0, d) = [main |-> events[1], friends |-> <<>>]
  BY <1>1 DEF MixedEntry
<1> QED BY <1>2 DEF MixedRun

\* What GetEntry leaves in the branches is an entry of the chain or what was there.
LEMMA EntryOfChain ==
    ASSUME setup \in Setups, NEW e \in Nat, NEW d
    PROVE \/ \E n \in 1..Len(Chain) : Entry(e, d).main = Chain[n]
          \/ Entry(e, d) = d
<1>1. Len(Chain) \in Nat \ {0}
  BY SetupsAssumption DEF Chain
<1>2. CASE e < Len(Chain)
  <2>1. e + 1 \in 1..Len(Chain) BY <1>1, <1>2
  <2>2. Entry(e, d).main = Chain[e + 1] BY <1>2 DEF Entry
  <2> QED BY <2>1, <2>2
<1>3. CASE ~(e < Len(Chain))
  BY <1>3 DEF Entry
<1> QED BY <1>2, <1>3

\* The entry that is asked for is a number.
LEMMA AskedIsNumber ==
    ASSUME setup \in Setups, EntriesMatch, pc = "loop", LoopOn
    PROVE Asked \in Nat
<1>1. CASE Method \in {"Run", "RunEventReco"}
  BY <1>1 DEF Asked, EntriesMatch
<1>2. CASE Method \notin {"Run", "RunEventReco"}
  <2>1. setup.entries \in Seq(Nat) BY SetupsAssumption
  <2>2. i \in Nat /\ i < Len(setup.entries) BY <1>2 DEF EntriesMatch, LoopOn
  <2>3. i + 1 \in 1..Len(setup.entries) BY <2>1, <2>2
  <2> QED BY <1>2, <2>1, <2>3 DEF Asked
<1> QED BY <1>1, <1>2

\* The header of the event a source has read is that of the run.
LEMMA SourceHeaderRun == \A d, t : FileHeader(d, t).run = d.main.run
  BY DEF FileHeader, Header

\* A setup that stays keeps what depends on it.
LEMMA SetupStays ==
    ASSUME setup' = setup
    PROVE /\ IsMixed' = IsMixed /\ Method' = Method
          /\ Chain' = Chain /\ MixedRun' = MixedRun
  BY DEF IsMixed, Method, Chain, MixedRun

-----------------------------------------------------------------------------
(* The steps. *)

LEMMA ParametersInit == Init => ParametersInv
<1> SUFFICES ASSUME Init PROVE ParametersInv
  OBVIOUS
<1>1. seen \in Seq({}) /\ DOMAIN seen = {}
  BY DEF Init
<1> QED BY <1>1 DEF Init, ParametersInv, EntriesMatch, SeenMatch

\* What a step that leaves the run and what was seen alone keeps.
LEMMA SeenStays ==
    ASSUME SeenMatch, setup' = setup, seen' = seen
    PROVE SeenMatch'
  BY SetupStays DEF SeenMatch, RunBefore

LEMMA RunInitStep == ASSUME ParametersInv, RunInit PROVE ParametersInv'
<1>1. setup' = setup /\ i' = i /\ pc' = "ready" /\ seen' = seen
  BY DEF RunInit, output
<1>2. EntriesMatch' BY <1>1 DEF ParametersInv, EntriesMatch
<1>3. SeenMatch' BY <1>1, SeenStays DEF ParametersInv
<1>4. RunsMatch'
  <2>1. CASE IsMixed
    <3>1. data'.main.run = MixedRun
      BY <2>1, MixedRunFirst DEF RunInit, ParametersInv
    <3>2. outHeader'.run = MixedRun
      <4>1. outHeader' = [outHeader EXCEPT !.run = data'.main.run] BY <2>1 DEF RunInit
      <4> QED BY <4>1, <3>1
    <3> QED BY <1>1, <2>1, <3>2, SetupStays DEF RunInit, RunsMatch
  <2>2. CASE ~IsMixed
    <3>1. data'.main = Chain[1]
      <4>1. Len(Chain) \in Nat \ {0} BY SetupsAssumption DEF ParametersInv, Chain
      <4> QED BY <2>2, <4>1 DEF RunInit, Entry
    <3>2. fEvtHeader'.run = Chain[1].run BY <2>2, <3>1, SourceHeaderRun DEF RunInit
    <3>3. seen' = << >> BY <1>1 DEF RunInit, ParametersInv
    <3>4. RunBefore(Len(seen) + 1)' = Chain[1].run BY <1>1, <3>3, SetupStays DEF RunBefore
    <3> QED BY <1>1, <2>2, <3>1, <3>2, <3>4, SetupStays DEF RunInit, RunsMatch
  <2> QED BY <2>1, <2>2
<1> QED BY <1>1, <1>2, <1>3, <1>4 DEF ParametersInv

LEMMA StartStep == ASSUME ParametersInv, Start PROVE ParametersInv'
<1>1. setup' = setup /\ pc' = "loop" /\ seen' = seen
  BY DEF Start, output
<1>2. EntriesMatch'
  <2>1. setup.start \in Nat BY SetupsAssumption DEF ParametersInv
  <2>2. i' \in Nat
    BY <2>1 DEF Start, EventRange
  <2> QED BY <1>1, <2>2, SetupStays DEF Start, EntriesMatch
<1>3. SeenMatch' BY <1>1, SeenStays DEF ParametersInv
<1>4. RunsMatch' BY <1>1, SetupStays
  DEF Start, ParametersInv, RunsMatch, RunBefore, source, header, parameters
<1> QED BY <1>1, <1>2, <1>3, <1>4 DEF ParametersInv

LEMMA ReadEventStep == ASSUME ParametersInv, ReadEvent PROVE ParametersInv'
<1>1. setup' = setup /\ i' = i /\ range' = range /\ pc' = "event" /\ seen' = seen
  BY DEF ReadEvent, output
<1>2. RunsMatch /\ EntriesMatch /\ pc = "loop" /\ LoopOn
  BY DEF ReadEvent, ParametersInv
<1>3. EntriesMatch' BY <1>1, <1>2, SetupStays DEF EntriesMatch
<1>4. SeenMatch' BY <1>1, SeenStays DEF ParametersInv
<1>5. RunsMatch'
  <2>1. CASE IsMixed
    <3>1. outHeader'.run = outHeader.run
      BY <2>1 DEF ReadEvent, MixedRead, Header
    <3>2. fEvtHeader'.run = MixedRun
      BY <1>2, <2>1, <3>1 DEF ReadEvent, SourceHeader, RunsMatch
    <3> QED BY <1>1, <1>2, <2>1, <3>1, <3>2, SetupStays
      DEF ReadEvent, CheckRunIdChanged, RunsMatch
  <2>2. CASE ~IsMixed /\ Method = "Run"
    <3>1. fEvtHeader'.run = data'.main.run
      BY <2>2, SourceHeaderRun DEF ReadEvent, SourceHeader
    <3> QED BY <1>1, <1>2, <2>2, <3>1, SetupStays
      DEF ReadEvent, CheckRunIdChanged, RunsMatch
  <2>3. CASE ~IsMixed /\ Method # "Run"
    <3>1. fEvtHeader' = fEvtHeader BY <2>3 DEF ReadEvent
    <3>2. RunBefore(Len(seen) + 1)' = RunBefore(Len(seen) + 1)
      BY <1>1, SetupStays DEF RunBefore
    <3> QED BY <1>1, <1>2, <2>3, <3>1, <3>2, SetupStays
      DEF ReadEvent, CheckRunIdChanged, RunsMatch
  <2> QED BY <2>1, <2>2, <2>3
<1> QED BY <1>1, <1>3, <1>4, <1>5 DEF ParametersInv

LEMMA ExecuteStep == ASSUME ParametersInv, Execute PROVE ParametersInv'
<1>1. setup' = setup /\ pc = "event" /\ pc' = "loop" /\ i' = i + 1 /\ range' = range
  BY DEF Execute
<1>2. data' = data /\ outHeader' = outHeader /\ fRunId' = fRunId /\ taskRun' = taskRun
  BY DEF Execute, source, parameters
<1>3. RunsMatch /\ EntriesMatch /\ SeenMatch BY <1>1 DEF ParametersInv
<1>4. EntriesMatch' BY <1>1, <1>3, SetupStays DEF EntriesMatch
<1>5. seen' = Append(seen, Loaded) BY DEF Execute
<1>6. PICK S : seen \in Seq(S) BY <1>3 DEF SeenMatch
<1>7. PICK n \in Nat : n = Len(seen) /\ DOMAIN seen = 1 .. n BY <1>6
<1>8. /\ seen' \in Seq(S \cup {Loaded}) /\ Len(seen') = n + 1 /\ DOMAIN seen' = 1 .. n + 1
      /\ seen'[n + 1] = Loaded /\ \A k \in 1 .. n : seen'[k] = seen[k]
  <2>1. seen \in Seq(S \cup {Loaded}) BY <1>6
  <2> QED BY <1>5, <1>6, <1>7, <2>1
<1>9. ASSUME NEW k \in 1 .. n + 1 PROVE RunBefore(k)' = RunBefore(k)
  <2>1. k # 1 => k - 1 \in 1 .. n BY <1>7
  <2> QED BY <1>1, <1>8, <2>1, SetupStays DEF RunBefore
<1>10. RunBefore(n + 2)' = Loaded.event.run
  <2>1. n + 2 # 1 /\ n + 2 - 1 = n + 1 BY <1>7
  <2> QED BY <1>8, <2>1 DEF RunBefore
<1>11. RunsMatch'
  <2>1. fEvtHeader' = LoadedHeader BY DEF Execute
  <2>2. ~IsMixed => fEvtHeader'.run = Loaded.event.run
    BY <2>1, SourceHeaderRun DEF LoadedHeader, Loaded
  <2>3. RunBefore(Len(seen) + 1)' = Loaded.event.run
    <3>1. Len(seen') + 1 = n + 2 BY <1>7, <1>8
    <3> QED BY <1>10, <3>1
  <2> QED BY <1>1, <1>2, <1>3, <2>1, <2>2, <2>3, SetupStays DEF RunsMatch, LoadedHeader
<1>12. Loaded.run = IF IsMixed THEN MixedRun
                    ELSE IF setup.static THEN Chain[1].run
                    ELSE IF Method = "Run" THEN Loaded.event.run ELSE RunBefore(n + 1)
  BY <1>1, <1>3, <1>7 DEF RunsMatch, Loaded
<1>13. SeenMatch'
  <2>1. ASSUME NEW k \in 1 .. n + 1
        PROVE seen'[k].run = IF IsMixed THEN MixedRun
                             ELSE IF setup.static THEN Chain[1].run
                             ELSE IF Method = "Run" THEN seen'[k].event.run ELSE RunBefore(k)
    <3>1. CASE k = n + 1 BY <1>8, <1>12, <3>1
    <3>2. CASE k # n + 1
      <4>1. k \in 1 .. n BY <1>7, <3>2
      <4> QED BY <1>3, <1>7, <1>8, <4>1 DEF SeenMatch
    <3> QED BY <3>1, <3>2
  <2> QED BY <1>1, <1>8, <1>9, <2>1, SetupStays DEF SeenMatch
<1> QED BY <1>1, <1>4, <1>11, <1>13 DEF ParametersInv

LEMMA FinishStep == ASSUME ParametersInv, Finish PROVE ParametersInv'
<1>1. setup' = setup /\ pc' = "end" /\ i' = i /\ seen' = seen /\ pc = "loop"
      /\ fEvtHeader' = fEvtHeader /\ fRunId' = fRunId /\ taskRun' = taskRun
  BY DEF Finish, parameters, output
<1>2. EntriesMatch' BY <1>1 DEF ParametersInv, EntriesMatch
<1>3. SeenMatch' BY <1>1, SeenStays DEF ParametersInv
<1>4. RunsMatch'
  <2>1. RunsMatch BY <1>1 DEF ParametersInv
  <2>2. outHeader' = outHeader BY DEF Finish, FileRead, source
  <2>3. RunBefore(Len(seen) + 1)' = RunBefore(Len(seen) + 1) BY <1>1, SetupStays DEF RunBefore
  <2> QED BY <1>1, <2>1, <2>2, <2>3, SetupStays DEF RunsMatch
<1> QED BY <1>1, <1>2, <1>3, <1>4 DEF ParametersInv

LEMMA InterruptStep == ASSUME ParametersInv, Interrupt PROVE ParametersInv'
<1>1. /\ setup' = setup /\ pc' = pc /\ seen' = seen /\ i' = i /\ range' = range
      /\ data' = data /\ outHeader' = outHeader /\ fEvtHeader' = fEvtHeader
      /\ fRunId' = fRunId /\ taskRun' = taskRun
  BY DEF Interrupt, source, header, parameters, output
<1>2. SeenMatch' BY <1>1, SeenStays DEF ParametersInv
<1>3. RunBefore(Len(seen) + 1)' = RunBefore(Len(seen) + 1) BY <1>1, SetupStays DEF RunBefore
<1> QED BY <1>1, <1>2, <1>3, SetupStays DEF ParametersInv, EntriesMatch, RunsMatch

LEMMA StutterStep == ASSUME ParametersInv, UNCHANGED vars PROVE ParametersInv'
<1>1. /\ setup' = setup /\ pc' = pc /\ seen' = seen /\ i' = i /\ range' = range
      /\ data' = data /\ outHeader' = outHeader /\ fEvtHeader' = fEvtHeader
      /\ fRunId' = fRunId /\ taskRun' = taskRun
  BY DEF vars, source, header, parameters, output
<1>2. SeenMatch' BY <1>1, SeenStays DEF ParametersInv
<1>3. RunBefore(Len(seen) + 1)' = RunBefore(Len(seen) + 1) BY <1>1, SetupStays DEF RunBefore
<1> QED BY <1>1, <1>2, <1>3, SetupStays DEF ParametersInv, EntriesMatch, RunsMatch

-----------------------------------------------------------------------------
(* The theorem. *)

\* The run of every event of a mixed run is that of the chain it was told to take it from.
LEMMA ParametersFromInv == ParametersInv => ParametersOfRun
<1> SUFFICES ASSUME ParametersInv, NEW k \in DOMAIN seen
             PROVE IF IsMixed
                   THEN seen[k].run = MixedEntry(setup.runFrom, 0, data).main.run
                   ELSE IF setup.static THEN seen[k].run = Chain[1].run
                   ELSE \/ seen[k].run = seen[k].event.run
                        \/ Method # "Run" /\ seen[k].run = RunBefore(k)
  BY DEF ParametersOfRun
<1>1. IsMixed => MixedEntry(setup.runFrom, 0, data).main.run = MixedRun
  BY MixedRunFirst DEF ParametersInv
<1> QED BY <1>1 DEF ParametersInv, SeenMatch

\* The invariant holds in every state of every run.
LEMMA ParametersAlways == Spec => []ParametersInv
<1>1. ParametersInv /\ [Next]_vars => ParametersInv'
  <2> SUFFICES ASSUME ParametersInv, [Next]_vars PROVE ParametersInv'
    OBVIOUS
  <2>1. CASE RunInit BY <2>1, RunInitStep
  <2>2. CASE Start BY <2>2, StartStep
  <2>3. CASE ReadEvent BY <2>3, ReadEventStep
  <2>4. CASE Execute BY <2>4, ExecuteStep
  <2>5. CASE Finish BY <2>5, FinishStep
  <2>6. CASE Interrupt BY <2>6, InterruptStep
  <2>7. CASE UNCHANGED vars BY <2>7, StutterStep
  <2> QED BY <2>1, <2>2, <2>3, <2>4, <2>5, <2>6, <2>7 DEF Next
<1> QED BY <1>1, ParametersInit, PTL DEF Spec

(***************************************************************************)
(* CheckRunIdChanged: the tasks of Run, which fills the header before it,  *)
(* work on every event with the parameters of its run, or of the first run *)
(* if the containers are static, for all files, runs, ranges and           *)
(* interrupts; RunEventReco, RunSingleEntry and RunMQ, which fill it after *)
(* the tasks, do so with those of the event or of the one before.          *)
(***************************************************************************)
THEOREM ParametersAlwaysOfRun == Spec => []ParametersOfRun
  BY ParametersAlways, ParametersFromInv, PTL

-----------------------------------------------------------------------------
(* The times that are drawn. *)

\* SetEventTime adds what is drawn at least once, and stops outside of a gap.
LEMMA DrawnTime ==
    ASSUME setup \in Setups, NEW t \in Int, NEW u \in SetEventTime(t)
    PROVE /\ u \in Int /\ u > t /\ ~InGap(u)
          /\ ~HasBeam => u - t \in setup.deltas
<1>1. PICK n : n = setup.gap + 1 OBVIOUS
<1>2. PICK D : D = setup.deltas OBVIOUS
<1>3. n \in Nat /\ D \in SUBSET (Nat \ {0}) BY <1>1, <1>2, TimesAssumption
<1> DEFINE After(T) == {v + d : v \in {w \in T : InGap(w)}, d \in D}
           Step(g, k) == IF k = 0 THEN {t + d : d \in D} ELSE After(g[k - 1])
           Unfolds(g, top) == g = [k \in 0 .. top |-> Step(g, k)]
           Exist == {m \in 0 .. n : \E g : Unfolds(g, m)}
<1>4. 0 \in Exist
  <2> DEFINE g == [m \in 0 .. 0 |-> {t + d : d \in D}]
  <2>1. \A k \in 0 .. 0 : Step(g, k) = {t + d : d \in D} OBVIOUS
  <2> HIDE DEF Step
  <2>2. Unfolds(g, 0) BY <2>1
  <2>3. 0 \in 0 .. n BY <1>3
  <2> HIDE DEF Unfolds
  <2> QED BY <2>2, <2>3
<1>5. ASSUME NEW m \in 0 .. n - 1, m \in Exist PROVE m + 1 \in Exist
  <2>1. PICK g : Unfolds(g, m) BY <1>5
  <2> HIDE DEF After
  <2>2. PICK y : y = After(g[m]) OBVIOUS
  <2> DEFINE h == [k \in 0 .. m + 1 |-> IF k = m + 1 THEN y ELSE g[k]]
  <2>3. \A k \in 0 .. m : h[k] = g[k] OBVIOUS
  <2>4. h[m + 1] = y OBVIOUS
  <2>5. h = [k \in 0 .. m + 1 |-> h[k]] OBVIOUS
  <2> HIDE DEF h
  <2>6. ASSUME NEW k \in 0 .. m + 1 PROVE h[k] = Step(h, k)
    <3>1. CASE k = m + 1
      <4>1. k # 0 /\ k - 1 = m /\ m \in 0 .. m BY <3>1
      <4> QED BY <2>2, <2>3, <2>4, <3>1, <4>1
    <3>2. CASE k # m + 1
      <4>1. k \in 0 .. m /\ (k # 0 => k - 1 \in 0 .. m) BY <3>2
      <4>2. g[k] = Step(g, k)
        <5> HIDE DEF Step
        <5> QED BY <2>1, <4>1
      <4> QED BY <2>3, <4>1, <4>2
    <3> QED BY <3>1, <3>2
  <2> HIDE DEF Step
  <2>7. Unfolds(h, m + 1) BY <2>5, <2>6
  <2>8. m + 1 \in 0 .. n BY <1>3
  <2> HIDE DEF Unfolds
  <2> QED BY <2>7, <2>8
<1>6. n \in Exist
  <2>1. 0 \in Int /\ 0 \in Nat /\ n \in Int /\ n \in 0 .. n BY <1>3
  <2> HIDE DEF Step
  <2>2. PICK T : T = Exist OBVIOUS
  <2> HIDE DEF Exist
  <2>3. 0 .. n \subseteq T BY <1>4, <1>5, <2>1, <2>2, InductionUpTo
  <2> QED BY <2>1, <2>2, <2>3
<1> DEFINE Drawn(g) == {v \in UNION {g[m] : m \in 0 .. n} : ~InGap(v)}
<1>7. SetEventTime(t) = Drawn(CHOOSE g : Unfolds(g, n)) BY <1>1, <1>2 DEF SetEventTime
<1>8. PICK g : Unfolds(g, n) /\ SetEventTime(t) = Drawn(g)
  <2>1. \E g : Unfolds(g, n)
    <3> HIDE DEF Unfolds
    <3> QED BY <1>6
  <2> HIDE DEF Unfolds, Drawn
  <2> QED BY <1>7, <2>1
<1>9. \A k \in 0 .. n : g[k] = Step(g, k)
  <2> HIDE DEF Step
  <2> QED BY <1>8
<1>10. PICK k \in 0 .. n : u \in g[k] /\ ~InGap(u) /\ g[k] = Step(g, k)
  <2> HIDE DEF Step
  <2> QED BY <1>8, <1>9
\* Every time that is reached is later; without a beam one draw is enough.
<1> DEFINE Later(T) == \A v \in T : v \in Int /\ v > t
           Good == {m \in 0 .. n : Later(g[m])}
<1>11. 0 \in Good
  <2>1. 0 \in 0 .. n BY <1>3
  <2>2. g[0] = {t + d : d \in D}
    <3>1. g[0] = Step(g, 0)
      <4> HIDE DEF Step
      <4> QED BY <1>9, <2>1
    <3> HIDE DEF After
    <3> QED BY <3>1
  <2> QED BY <1>3, <2>1, <2>2
<1>12. ASSUME NEW m \in 0 .. n - 1, m \in Good PROVE m + 1 \in Good
  <2>1. m + 1 \in 0 .. n /\ m + 1 # 0 /\ (m + 1) - 1 = m BY <1>3
  <2>2. g[m + 1] = After(g[m])
    <3>1. g[m + 1] = Step(g, m + 1)
      <4> HIDE DEF Step
      <4> QED BY <1>9, <2>1
    <3> HIDE DEF After
    <3> QED BY <2>1, <3>1
  <2>3. Later(g[m]) BY <1>12
  <2>4. ASSUME NEW v \in g[m + 1] PROVE v \in Int /\ v > t
    <3>1. PICK w \in g[m], d \in D : v = w + d BY <2>2, <2>4
    <3> QED BY <1>3, <2>3, <3>1
  <2> QED BY <2>1, <2>4
<1>13. k \in Good
  <2>1. 0 \in Int /\ 0 \in Nat /\ n \in Int BY <1>3
  <2>2. PICK T : T = Good OBVIOUS
  <2> HIDE DEF Good
  <2>3. 0 .. n \subseteq T BY <1>11, <1>12, <2>1, <2>2, InductionUpTo
  <2> QED BY <2>2, <2>3
<1>14. u \in Int /\ u > t BY <1>10, <1>13
<1>15. ASSUME ~HasBeam PROVE u - t \in setup.deltas
  <2>1. k = 0
    <3> SUFFICES ASSUME k # 0 PROVE FALSE OBVIOUS
    <3>1. g[k] = After(g[k - 1])
      <4> HIDE DEF After
      <4> QED BY <1>10
    <3>2. \A w : ~InGap(w) BY <1>15 DEF InGap
    <3>3. g[k] = {} BY <3>1, <3>2
    <3> QED BY <1>10, <3>3
  <2>2. g[k] = {t + d : d \in D}
    <3> HIDE DEF After
    <3> QED BY <1>10, <2>1
  <2>3. PICK d \in D : u = t + d BY <1>10, <2>2
  <2>4. u - t = d BY <1>3, <2>3
  <2> QED BY <1>2, <2>3, <2>4
<1> QED BY <1>10, <1>14, <1>15

-----------------------------------------------------------------------------
(* The invariant on the times. *)

\* The time is what TimesRight asks of the k-th event, if it is drawn.
Follows(k, time) ==
    /\ ~InGap(time)
    /\ k > 1 /\ ~IsMixed /\ WantedEntry(k) = WantedEntry(k - 1) => time = seen[k - 1].time
    /\ k > 1 /\ (IsMixed \/ WantedEntry(k) # WantedEntry(k - 1)) =>
         /\ time > seen[k - 1].time
         /\ ~IsMixed /\ ~HasBeam => time - seen[k - 1].time \in setup.deltas

SeenInTime ==
    \A k \in DOMAIN seen :
        IF Sampled THEN Follows(k, seen[k].time) ELSE seen[k].time = seen[k].event.t

\* Where the loop over the files begins, and how far it has come.
LoopFrom == IF Method \in {"Run", "RunEventReco"} THEN WantedFrom ELSE 0
LoopMatch == ~IsMixed /\ pc \in {"loop", "event"} => i = LoopFrom + Len(seen)

\* The source has the time of the event seen last, and draws once for an entry.
ClockMatch ==
    /\ fEventTime \in Int
    /\ ~IsMixed /\ fTimeforEntryNo \in Nat => ~InGap(fEventTime)
    /\ pc = "loop" /\ Len(seen) > 0 =>
         /\ fEventTime = seen[Len(seen)].time
         /\ ~IsMixed => fTimeforEntryNo = WantedEntry(Len(seen))
    /\ pc = "event" =>
         /\ fCurrentTime = fEventTime
         /\ Follows(Len(seen) + 1, fEventTime)
         /\ ~IsMixed => fTimeforEntryNo = WantedEntry(Len(seen) + 1)

TimesInv ==
    /\ pc \in {"init", "ready"} => Len(seen) = 0
    /\ SeenInTime
    /\ LoopMatch
    /\ ~Sampled /\ pc = "event" => fCurrentTime = data.main.t
    /\ Sampled /\ pc # "end" => ClockMatch

-----------------------------------------------------------------------------
(* How the times go on. *)

LEMMA SeenLength == ASSUME ParametersInv PROVE Len(seen) \in Nat /\ DOMAIN seen = 1 .. Len(seen)
<1>1. PICK S : seen \in Seq(S) BY DEF ParametersInv, SeenMatch
<1> QED BY <1>1

\* What is asked of the time of an event depends on what was seen before it only.
LEMMA FollowsKept ==
    ASSUME setup' = setup, NEW k, NEW time, k > 1 => seen'[k - 1] = seen[k - 1],
           Follows(k, time)
    PROVE Follows(k, time)'
  BY DEF Follows, InGap, HasBeam, IsMixed, WantedEntry, WantedFrom, Method

LEMMA TimesKept ==
    ASSUME setup' = setup, seen' = seen, SeenInTime
    PROVE SeenInTime'
<1>1. Sampled' = Sampled BY DEF Sampled
<1> SUFFICES ASSUME NEW k \in DOMAIN seen
             PROVE (IF Sampled THEN Follows(k, seen[k].time) ELSE seen[k].time = seen[k].event.t)'
  BY DEF SeenInTime
<1>2. IF Sampled THEN Follows(k, seen[k].time) ELSE seen[k].time = seen[k].event.t
  BY DEF SeenInTime
<1>3. PICK time : time = seen[k].time OBVIOUS
<1>4. CASE Sampled
  <2>1. Follows(k, time)' BY <1>2, <1>3, <1>4, FollowsKept
  <2>2. time = seen'[k].time BY <1>3
  <2> QED BY <1>1, <1>4, <2>1, <2>2
<1>5. CASE ~Sampled BY <1>1, <1>2, <1>5
<1> QED BY <1>4, <1>5

\* The loop asks for the entries that are wanted.
LEMMA AskedIsWanted ==
    ASSUME ParametersInv, ~IsMixed, i = LoopFrom + Len(seen)
    PROVE Asked = WantedEntry(Len(seen) + 1)
<1>1. PICK n \in Nat : n = Len(seen) BY SeenLength
<1>2. WantedFrom \in Nat BY SetupsAssumption DEF ParametersInv, WantedFrom
<1>3. CASE Method \in {"Run", "RunEventReco"}
  <2>1. i = WantedFrom + n /\ WantedEntry(n + 1) = WantedFrom + (n + 1) - 1
    BY <1>1, <1>3 DEF LoopFrom, WantedEntry
  <2> QED BY <1>1, <1>2, <1>3, <2>1 DEF Asked
<1>4. CASE Method \notin {"Run", "RunEventReco"}
  <2>1. i = n BY <1>1, <1>4 DEF LoopFrom
  <2> QED BY <1>1, <1>4, <2>1 DEF Asked, WantedEntry
<1> QED BY <1>3, <1>4

\* A time drawn after that of the event before is the next one's.
LEMMA DrawnFollows ==
    ASSUME setup \in Setups, NEW n \in Nat, NEW t \in Int, n > 0 => t = seen[n].time,
           NEW u \in SetEventTime(t), ~IsMixed /\ n > 0 => WantedEntry(n + 1) # WantedEntry(n)
    PROVE Follows(n + 1, u)
<1>1. u \in Int /\ u > t /\ ~InGap(u) /\ (~HasBeam => u - t \in setup.deltas) BY DrawnTime
<1>2. (n + 1) - 1 = n /\ (n + 1 > 1 => n > 0) OBVIOUS
<1> QED BY <1>1, <1>2 DEF Follows

\* The time an event gets when it is read.
LEMMA ReadTime ==
    ASSUME ParametersInv, TimesInv, ReadEvent, Sampled
    PROVE /\ fEventTime' \in Int /\ ~InGap(fEventTime')
          /\ Follows(Len(seen) + 1, fEventTime')
          /\ ~IsMixed => fTimeforEntryNo' = Asked
<1>1. PICK n \in Nat : n = Len(seen) BY SeenLength
<1>2. PICK t : t = fEventTime OBVIOUS
<1>3. PICK u : u = fEventTime' OBVIOUS
<1>4. pc = "loop" /\ setup \in Setups BY DEF ReadEvent, ParametersInv
<1>5. /\ t \in Int
      /\ ~IsMixed /\ fTimeforEntryNo \in Nat => ~InGap(t)
      /\ n > 0 => t = seen[n].time
      /\ n > 0 /\ ~IsMixed => fTimeforEntryNo = WantedEntry(n)
  BY <1>1, <1>2, <1>4 DEF TimesInv, ClockMatch
<1>6. CASE IsMixed
  <2>1. u \in MixedTimes(Asked) BY <1>3, <1>6 DEF ReadEvent, MixedRead
  <2>2. CASE u \in SetEventTime(t)
    BY <1>1, <1>3, <1>4, <1>5, <1>6, <2>2, DrawnTime, DrawnFollows
  <2>3. CASE u \notin SetEventTime(t)
    <3>1. PICK s \in SetEventTime(t) : u \in SetEventTime(s)
      BY <1>2, <2>1, <2>3 DEF MixedTimes
    <3>2. s \in Int /\ s > t BY <1>4, <1>5, <3>1, DrawnTime
    <3>3. u \in Int /\ u > s /\ ~InGap(u) BY <1>4, <3>1, <3>2, DrawnTime
    <3>4. (n + 1) - 1 = n /\ (n + 1 > 1 => n > 0) /\ u > t BY <1>5, <3>2, <3>3
    <3> QED BY <1>1, <1>3, <1>5, <1>6, <3>3, <3>4 DEF Follows
  <2> QED BY <2>2, <2>3
<1>7. CASE ~IsMixed
  <2>1. PICK e \in Nat : e = Asked BY <1>4, AskedIsNumber DEF ReadEvent, ParametersInv
  <2>2. e = WantedEntry(n + 1)
    BY <1>1, <1>4, <1>7, <2>1, AskedIsWanted DEF TimesInv, LoopMatch
  <2>3. u \in FileTimes(e) /\ fTimeforEntryNo' = e
    BY <1>3, <1>7, <2>1 DEF ReadEvent, FileRead
  <2>4. CASE fTimeforEntryNo = e
    <3>1. u = t BY <1>2, <2>3, <2>4 DEF FileTimes
    <3>2. ~InGap(u) BY <1>5, <1>7, <2>4, <3>1
    <3>3. (n + 1) - 1 = n /\ (n + 1 > 1 => n > 0) OBVIOUS
    <3>4. n > 0 => WantedEntry(n + 1) = WantedEntry(n) BY <1>5, <1>7, <2>2, <2>4
    <3> QED BY <1>1, <1>3, <1>5, <1>7, <2>1, <2>3, <3>1, <3>2, <3>3, <3>4 DEF Follows
  <2>5. CASE fTimeforEntryNo # e
    <3>1. u \in SetEventTime(t) BY <1>2, <2>3, <2>5 DEF FileTimes
    <3>2. n > 0 => WantedEntry(n + 1) # WantedEntry(n) BY <1>5, <1>7, <2>2, <2>5
    <3>3. Follows(n + 1, u) BY <1>4, <1>5, <3>1, <3>2, DrawnFollows
    <3>4. u \in Int /\ ~InGap(u) BY <1>4, <1>5, <3>1, DrawnTime
    <3> QED BY <1>1, <1>3, <2>1, <2>3, <3>3, <3>4
  <2> QED BY <2>4, <2>5
<1> QED BY <1>6, <1>7

-----------------------------------------------------------------------------
(* The steps keep the times right. *)

LEMMA TimesInit == Init => TimesInv
<1> SUFFICES ASSUME Init PROVE TimesInv
  OBVIOUS
<1>1. /\ pc = "init" /\ Len(seen) = 0 /\ DOMAIN seen = {} /\ fEventTime = 0
      /\ ~IsMixed => fTimeforEntryNo = -1
  BY DEF Init
<1>2. SeenInTime BY <1>1 DEF SeenInTime
<1>3. ClockMatch BY <1>1 DEF ClockMatch
<1> QED BY <1>1, <1>2, <1>3 DEF TimesInv, LoopMatch

LEMMA TimesRunInit == ASSUME ParametersInv, TimesInv, RunInit PROVE TimesInv'
<1>1. setup' = setup /\ pc = "init" /\ pc' = "ready" /\ seen' = seen /\ Len(seen) = 0
  BY DEF RunInit, output, TimesInv
<1>2. SeenInTime' BY <1>1, TimesKept DEF TimesInv
<1>3. ASSUME Sampled PROVE ClockMatch'
  <2>1. ClockMatch /\ setup \in Setups /\ fEventTime \in Int
    BY <1>1, <1>3 DEF TimesInv, ParametersInv, ClockMatch
  <2>2. CASE IsMixed
    <3>1. fEventTime' = fEventTime BY <2>2 DEF RunInit, times
    <3> QED BY <1>1, <2>1, <2>2, <3>1, SetupStays DEF ClockMatch
  <2>3. CASE ~IsMixed
    <3>1. PICK u : u = fEventTime' OBVIOUS
    <3>2. u \in FileTimes(0) BY <1>3, <2>3, <3>1 DEF RunInit
    <3>3. u \in Int /\ ~InGap(u)
      <4>1. CASE fTimeforEntryNo = 0
        <5>1. u = fEventTime BY <3>2, <4>1 DEF FileTimes
        <5> QED BY <2>1, <2>3, <4>1, <5>1 DEF ClockMatch
      <4>2. CASE fTimeforEntryNo # 0
        <5>1. u \in SetEventTime(fEventTime) BY <3>2, <4>2 DEF FileTimes
        <5> QED BY <2>1, <5>1, DrawnTime
      <4> QED BY <4>1, <4>2
    <3>4. ~InGap(u)' BY <1>1, <3>3 DEF InGap, HasBeam
    <3> QED BY <1>1, <3>1, <3>3, <3>4 DEF ClockMatch
  <2> QED BY <2>2, <2>3
<1>4. Sampled' = Sampled BY <1>1 DEF Sampled
<1> QED BY <1>1, <1>2, <1>3, <1>4 DEF TimesInv, LoopMatch

\* The loop over the files begins with the first entry that is wanted.
LEMMA StartsAsWanted ==
    ASSUME ParametersInv, Start, ~IsMixed
    PROVE i' = LoopFrom
<1>1. i' = range'.from /\ setup \in Setups BY DEF Start, ParametersInv
<1>2. CASE Method \in {"Run", "RunEventReco"}
  <2>1. range' = EventRange(setup.start, setup.end) BY <1>2 DEF Start
  <2>2. Len(Chain) \in Nat BY <1>1, SetupsAssumption DEF Chain
  <2>3. PICK max : max = CheckMaxEventNo(setup.end) OBVIOUS
  <2>4. max = IF setup.end # 0 THEN setup.end ELSE Len(Chain) BY <2>3 DEF CheckMaxEventNo
  <2>5. EventRange(setup.start, setup.end).from = WantedFrom
    <3>1. CASE setup.end # 0 BY <2>3, <2>4, <3>1 DEF EventRange, WantedFrom
    <3>2. CASE setup.end = 0
      <4>1. max # -1 BY <2>2, <2>4, <3>2
      <4> QED BY <2>3, <3>2, <4>1 DEF EventRange, WantedFrom
    <3> QED BY <3>1, <3>2
  <2> QED BY <1>1, <1>2, <2>1, <2>5 DEF LoopFrom
<1>3. CASE Method \notin {"Run", "RunEventReco"} BY <1>1, <1>3 DEF Start, LoopFrom
<1> QED BY <1>2, <1>3

LEMMA TimesStart == ASSUME ParametersInv, TimesInv, Start PROVE TimesInv'
<1>1. /\ setup' = setup /\ pc = "ready" /\ pc' = "loop" /\ seen' = seen /\ Len(seen) = 0
      /\ fEventTime' = fEventTime /\ fTimeforEntryNo' = fTimeforEntryNo
  BY DEF Start, output, source, times, TimesInv
<1>2. SeenInTime' BY <1>1, TimesKept DEF TimesInv
<1>3. LoopMatch'
  <2>1. LoopFrom' = LoopFrom /\ LoopFrom \in Nat
    BY <1>1, SetupsAssumption DEF LoopFrom, WantedFrom, Method, ParametersInv
  <2> QED BY <1>1, <2>1, StartsAsWanted, SetupStays DEF LoopMatch
<1>4. ASSUME Sampled PROVE ClockMatch'
  <2>1. ClockMatch BY <1>1, <1>4 DEF TimesInv
  <2> QED BY <1>1, <2>1, SetupStays DEF ClockMatch, InGap, HasBeam
<1>5. Sampled' = Sampled BY <1>1 DEF Sampled
<1> QED BY <1>1, <1>2, <1>3, <1>4, <1>5 DEF TimesInv

LEMMA TimesReadEvent == ASSUME ParametersInv, TimesInv, ReadEvent PROVE TimesInv'
<1>1. setup' = setup /\ pc = "loop" /\ pc' = "event" /\ seen' = seen /\ i' = i
  BY DEF ReadEvent, output
<1>2. SeenInTime' BY <1>1, TimesKept DEF TimesInv
<1>3. LoopFrom' = LoopFrom BY <1>1 DEF LoopFrom, WantedFrom, Method
<1>4. LoopMatch' BY <1>1, <1>3, SetupStays DEF TimesInv, LoopMatch
<1>5. fCurrentTime' = fEventTime'
  BY DEF ReadEvent, SourceHeader, MixedRead, FileHeader, Header
<1>6. Sampled' = Sampled BY <1>1 DEF Sampled
<1>7. ~Sampled => fEventTime' = data'.main.t BY DEF ReadEvent, MixedRead, FileRead
<1>8. ASSUME Sampled PROVE ClockMatch'
  <2>1. PICK n \in Nat : n = Len(seen) BY SeenLength
  <2>2. PICK u : u = fEventTime' OBVIOUS
  <2>3. u \in Int /\ ~InGap(u) /\ Follows(n + 1, u) /\ (~IsMixed => fTimeforEntryNo' = Asked)
    BY <1>8, <2>1, <2>2, ReadTime
  <2>4. ~InGap(u)' BY <1>1, <2>3 DEF InGap, HasBeam
  <2>5. Follows(n + 1, u)' BY <1>1, <2>3, FollowsKept
  <2>6. ~IsMixed => fTimeforEntryNo' = WantedEntry(n + 1)
    BY <1>1, <2>1, <2>3, AskedIsWanted DEF TimesInv, LoopMatch
  <2>7. WantedEntry(n + 1)' = WantedEntry(n + 1)
    BY <1>1 DEF WantedEntry, WantedFrom, Method
  <2>8. n = Len(seen)' BY <1>1, <2>1
  <2> QED BY <1>1, <1>5, <2>2, <2>3, <2>4, <2>5, <2>6, <2>7, <2>8, SetupStays DEF ClockMatch
<1> QED BY <1>1, <1>2, <1>4, <1>5, <1>6, <1>7, <1>8 DEF TimesInv

LEMMA TimesExecute == ASSUME ParametersInv, TimesInv, Execute PROVE TimesInv'
<1>1. /\ setup' = setup /\ pc = "event" /\ pc' = "loop" /\ i' = i + 1
      /\ fEventTime' = fEventTime /\ fTimeforEntryNo' = fTimeforEntryNo
      /\ seen' = Append(seen, Loaded)
  BY DEF Execute, source, times
<1>2. PICK n \in Nat : n = Len(seen) /\ DOMAIN seen = 1 .. n BY SeenLength
<1>3. PICK new : new = Loaded OBVIOUS
<1>4. /\ Len(seen') = n + 1 /\ DOMAIN seen' = 1 .. n + 1
      /\ \A k \in 1 .. n : seen'[k] = seen[k]
      /\ seen'[n + 1] = new
  <2>1. PICK S : seen \in Seq(S) BY DEF ParametersInv, SeenMatch
  <2>2. seen \in Seq(S \cup {new}) BY <2>1
  <2> QED BY <1>1, <1>2, <1>3, <2>2
<1>5. new.time = fCurrentTime /\ new.event = data.main BY <1>3 DEF Loaded
<1>6. Sampled' = Sampled BY <1>1 DEF Sampled
<1>7. LoopMatch'
  <2>1. LoopFrom' = LoopFrom /\ LoopFrom \in Nat
    BY <1>1, SetupsAssumption DEF LoopFrom, WantedFrom, Method, ParametersInv
  <2>2. ~IsMixed => i = LoopFrom + n BY <1>1, <1>2 DEF TimesInv, LoopMatch
  <2> QED BY <1>1, <1>4, <2>1, <2>2, SetupStays DEF LoopMatch
<1>8. ASSUME Sampled
      PROVE /\ fEventTime \in Int /\ new.time = fEventTime /\ Follows(n + 1, fEventTime)
            /\ ~IsMixed /\ fTimeforEntryNo \in Nat => ~InGap(fEventTime)
            /\ ~IsMixed => fTimeforEntryNo = WantedEntry(n + 1)
  BY <1>1, <1>2, <1>5, <1>8 DEF TimesInv, ClockMatch
<1>9. SeenInTime'
  <2> SUFFICES ASSUME NEW k \in 1 .. n + 1
               PROVE (IF Sampled THEN Follows(k, seen[k].time)
                      ELSE seen[k].time = seen[k].event.t)'
    BY <1>4 DEF SeenInTime
  <2>1. k > 1 => seen'[k - 1] = seen[k - 1] BY <1>4
  <2>2. PICK time : time = seen'[k].time OBVIOUS
  <2>3. CASE Sampled
    <3>1. Follows(k, time)
      <4>1. CASE k = n + 1 BY <1>4, <1>8, <2>2, <2>3, <4>1
      <4>2. CASE k # n + 1
        <5>1. k \in DOMAIN seen /\ seen'[k] = seen[k] BY <1>2, <1>4, <4>2
        <5> QED BY <2>2, <2>3, <5>1 DEF TimesInv, SeenInTime
      <4> QED BY <4>1, <4>2
    <3>2. Follows(k, time)' BY <1>1, <2>1, <3>1, FollowsKept
    <3> QED BY <1>6, <2>2, <2>3, <3>2
  <2>4. CASE ~Sampled
    <3>1. CASE k = n + 1
      <4>1. fCurrentTime = data.main.t BY <1>1, <2>4 DEF TimesInv
      <4> QED BY <1>4, <1>5, <1>6, <2>4, <3>1, <4>1
    <3>2. CASE k # n + 1
      <4>1. k \in DOMAIN seen /\ seen'[k] = seen[k] BY <1>2, <1>4, <3>2
      <4>2. seen[k].time = seen[k].event.t BY <2>4, <4>1 DEF TimesInv, SeenInTime
      <4> QED BY <1>6, <2>4, <4>1, <4>2
    <3> QED BY <3>1, <3>2
  <2> QED BY <2>3, <2>4
<1>10. ASSUME Sampled PROVE ClockMatch'
  <2>1. PICK t : t = fEventTime OBVIOUS
  <2>2. ~IsMixed /\ fTimeforEntryNo \in Nat => ~InGap(t) BY <1>8, <1>10, <2>1
  <2>3. InGap(t)' = InGap(t) BY <1>1 DEF InGap, HasBeam
  <2>4. WantedEntry(n + 1)' = WantedEntry(n + 1)
    BY <1>1 DEF WantedEntry, WantedFrom, Method
  <2>5. (n + 1)' = n + 1 /\ Len(seen)' = n + 1 BY <1>4
  <2> QED BY <1>1, <1>4, <1>8, <1>10, <2>1, <2>2, <2>3, <2>4, <2>5, SetupStays DEF ClockMatch
<1> QED BY <1>1, <1>6, <1>7, <1>9, <1>10 DEF TimesInv

LEMMA TimesFinish == ASSUME TimesInv, Finish PROVE TimesInv'
<1>1. setup' = setup /\ pc' = "end" /\ seen' = seen BY DEF Finish, output
<1>2. SeenInTime' BY <1>1, TimesKept DEF TimesInv
<1> QED BY <1>1, <1>2 DEF TimesInv, LoopMatch

\* An interrupt, or nothing.
LEMMA TimesStay ==
    ASSUME TimesInv, setup' = setup, pc' = pc, seen' = seen, i' = i, source' = source,
           header' = header
    PROVE TimesInv'
<1>1. /\ data' = data /\ fEventTime' = fEventTime /\ fTimeforEntryNo' = fTimeforEntryNo
      /\ fCurrentTime' = fCurrentTime
  BY DEF source, times, header
<1>2. SeenInTime' BY TimesKept DEF TimesInv
<1>3. LoopMatch' BY SetupStays DEF TimesInv, LoopMatch, LoopFrom, WantedFrom, Method
<1>4. Sampled' = Sampled BY DEF Sampled
<1>5. ClockMatch => ClockMatch'
  <2> SUFFICES ASSUME ClockMatch PROVE ClockMatch' OBVIOUS
  <2>1. PICK t : t = fEventTime OBVIOUS
  <2>2. PICK n : n = Len(seen) OBVIOUS
  <2>3. InGap(t)' = InGap(t) BY DEF InGap, HasBeam
  <2>4. Follows(n + 1, t) => Follows(n + 1, t)' BY FollowsKept
  <2>5. \A k : WantedEntry(k)' = WantedEntry(k) BY DEF WantedEntry, WantedFrom, Method
  <2> QED BY <1>1, <2>1, <2>2, <2>3, <2>4, <2>5, SetupStays DEF ClockMatch
<1> QED BY <1>1, <1>2, <1>3, <1>4, <1>5 DEF TimesInv

\* The invariant holds in every state of every run.
LEMMA TimesAlways == Spec => []TimesInv
<1>1. ParametersInv /\ TimesInv /\ [Next]_vars => TimesInv'
  <2> SUFFICES ASSUME ParametersInv, TimesInv, [Next]_vars PROVE TimesInv'
    OBVIOUS
  <2>1. CASE RunInit BY <2>1, TimesRunInit
  <2>2. CASE Start BY <2>2, TimesStart
  <2>3. CASE ReadEvent BY <2>3, TimesReadEvent
  <2>4. CASE Execute BY <2>4, TimesExecute
  <2>5. CASE Finish BY <2>5, TimesFinish
  <2>6. CASE Interrupt
    <3>1. setup' = setup /\ pc' = pc /\ seen' = seen /\ i' = i /\ source' = source
          /\ header' = header
      BY <2>6 DEF Interrupt, output
    <3> QED BY <3>1, TimesStay
  <2>7. CASE UNCHANGED vars
    <3>1. setup' = setup /\ pc' = pc /\ seen' = seen /\ i' = i /\ source' = source
          /\ header' = header
      BY <2>7 DEF vars, output
    <3> QED BY <3>1, TimesStay
  <2> QED BY <2>1, <2>2, <2>3, <2>4, <2>5, <2>6, <2>7 DEF Next
<1> QED BY <1>1, TimesInit, ParametersAlways, PTL DEF Spec

(***************************************************************************)
(* SetEventTime, GetEventTime and the loops that ask for the time of an    *)
(* entry: the times that are drawn grow from event to event, none is in a  *)
(* gap of the beam, and an entry that is read again keeps its time; else   *)
(* the events have the times of the files.  For all files, ranges, lists   *)
(* of entries, beams and draws.                                            *)
(***************************************************************************)
THEOREM TimesAlwaysRight == Spec => []TimesRight
<1>1. TimesInv => TimesRight
  <2> SUFFICES ASSUME TimesInv, NEW k \in DOMAIN seen
               PROVE IF Sampled THEN Follows(k, seen[k].time) ELSE seen[k].time = seen[k].event.t
    BY DEF TimesRight, Follows
  <2> QED BY DEF TimesInv, SeenInTime
<1> QED BY <1>1, TimesAlways, PTL

-----------------------------------------------------------------------------
(* The lists that are made in a loop. *)

\* The loop that takes a file that was added twice once.
LEMMA FilesUnfold ==
    ASSUME setup \in Setups
    PROVE \E g : /\ g[0] = << >> /\ FriendFiles = g[Len(setup.friends)]
                 /\ \A m \in 1 .. Len(setup.friends) :
                      g[m] = IF Contains(g[m - 1], setup.friends[m]) THEN g[m - 1]
                             ELSE Append(g[m - 1], setup.friends[m])
<1>1. PICK f : f = setup.friends OBVIOUS
<1>2. PICK n \in Nat : n = Len(f) /\ DOMAIN f = 1 .. n BY <1>1, SetupsAssumption
<1> DEFINE T == {f[m] : m \in 1 .. n}
           P == Seq(T)
           Round(x, m) == IF Contains(x, f[m]) THEN x ELSE Append(x, f[m])
           Body(g, m) == IF m = 0 THEN << >> ELSE Round(g[m - 1], m)
           Unfolds(g) == g = [m \in 0 .. n |-> Body(g, m)]
           step == [m \in 1 .. n |-> [x \in P |-> Round(x, m)]]
<1>3. FriendFiles = (CHOOSE g : Unfolds(g))[n] BY <1>1, <1>2 DEF FriendFiles, EachOnce
<1>4. \E g : Unfolds(g)
  <2>1. \A m \in 1 .. n, x \in P : Round(x, m) \in P
    <3> HIDE DEF T
    <3>1. \A m \in 1 .. n : f[m] \in T BY DEF T
    <3> QED BY <3>1
  <2>2. << >> \in P OBVIOUS
  <2> HIDE DEF P, Round
  <2>3. step \in [1 .. n -> [P -> P]] BY <2>1
  <2>4. PICK s : s = step OBVIOUS
  <2>5. \A m \in 1 .. n, x \in P : s[m][x] = Round(x, m) BY <2>4
  <2> HIDE DEF step
  <2>6. PICK g \in [0 .. n -> P] : g[0] = << >> /\ \A k \in 1 .. n : g[k] = s[k][g[k - 1]]
    <3>1. s \in [1 .. n -> [P -> P]] BY <2>3, <2>4
    <3>2. \E g : IsLoop(g, n, P, << >>, s) BY <2>2, <3>1, RecursionExists
    <3> QED BY <3>2 DEF IsLoop
  <2>7. \A k \in 0 .. n : g[k] = Body(g, k)
    <3> TAKE k \in 0 .. n
    <3>1. CASE k = 0 BY <2>6, <3>1
    <3>2. CASE k # 0
      <4>1. k \in 1 .. n /\ k - 1 \in 0 .. n BY <3>2
      <4> QED BY <2>5, <2>6, <3>2, <4>1
    <3> QED BY <3>1, <3>2
  <2>8. Unfolds(g)
    <3> HIDE DEF Body
    <3> QED BY <2>7
  <2> HIDE DEF Unfolds
  <2> QED BY <2>8
<1>5. PICK g : Unfolds(g) /\ FriendFiles = g[n]
  <2> HIDE DEF Unfolds
  <2> QED BY <1>3, <1>4
<1>6. \A m \in 0 .. n : g[m] = Body(g, m)
  <2> HIDE DEF Body
  <2> QED BY <1>5
<1>7. g[0] = << >>
  <2>1. 0 \in 0 .. n OBVIOUS
  <2> QED BY <1>6, <2>1
<1>8. ASSUME NEW m \in 1 .. n PROVE g[m] = Round(g[m - 1], m)
  <2>1. m \in 0 .. n /\ m # 0 OBVIOUS
  <2> HIDE DEF Round
  <2> QED BY <1>6, <2>1
<1> QED BY <1>1, <1>2, <1>5, <1>7, <1>8

\* The files that count are those that were added.
LEMMA FilesListed ==
    ASSUME setup \in Setups
    PROVE /\ IsSeq(FriendFiles)
          /\ {FriendFiles[j] : j \in DOMAIN FriendFiles} = {setup.friends[m] : m \in DOMAIN setup.friends}
<1>1. PICK f : f = setup.friends OBVIOUS
<1>2. PICK n \in Nat : n = Len(f) /\ DOMAIN f = 1 .. n BY <1>1, SetupsAssumption
<1>3. PICK g : /\ g[0] = << >> /\ FriendFiles = g[n]
               /\ \A m \in 1 .. n : g[m] = IF Contains(g[m - 1], f[m]) THEN g[m - 1]
                                           ELSE Append(g[m - 1], f[m])
  BY <1>1, <1>2, FilesUnfold
<1> DEFINE Listed(m) == IsSeq(g[m]) /\ {g[m][j] : j \in DOMAIN g[m]} = {f[k] : k \in 1 .. m}
           Good == {m \in 0 .. n : Listed(m)}
<1>4. 0 \in Good BY <1>3, EmptyIsSeq
<1>5. ASSUME NEW m \in 0 .. n - 1, m \in Good PROVE m + 1 \in Good
  <2>1. Listed(m) BY <1>5
  <2>2. PICK s : s = g[m] OBVIOUS
  <2>3. PICK x : x = f[m + 1] OBVIOUS
  <2>4. m + 1 \in 1 .. n /\ (m + 1) - 1 = m OBVIOUS
  <2>5. g[m + 1] = IF Contains(s, x) THEN s ELSE Append(s, x) BY <1>3, <2>2, <2>3, <2>4
  <2>6. {f[k] : k \in 1 .. m + 1} = {f[k] : k \in 1 .. m} \cup {x}
    <3>1. \A k : k \in 1 .. m + 1 <=> k \in 1 .. m \/ k = m + 1 OBVIOUS
    <3> QED BY <2>3, <3>1
  <2>7. IsSeq(s) /\ DOMAIN s = 1 .. Len(s) /\ Len(s) \in Nat BY <2>1, <2>2, IsSeqIs
  <2>8. CASE Contains(s, x)
    <3>1. \E j \in DOMAIN s : s[j] = x BY <2>7, <2>8 DEF Contains
    <3>2. x \in {f[k] : k \in 1 .. m} BY <2>1, <2>2, <3>1
    <3>3. g[m + 1] = s BY <2>5, <2>8
    <3>4. Listed(m + 1) BY <2>1, <2>2, <2>6, <3>2, <3>3
    <3>5. m + 1 \in 0 .. n OBVIOUS
    <3> HIDE DEF Listed
    <3> QED BY <3>4, <3>5
  <2>9. CASE ~Contains(s, x)
    <3>1. PICK t : t = Append(s, x) OBVIOUS
    <3>2. IsSeq(t) /\ DOMAIN t = 1 .. Len(s) + 1 /\ t[Len(s) + 1] = x
          /\ \A j \in 1 .. Len(s) : t[j] = s[j]
      BY <2>7, <3>1, AppendIs
    <3>3. {t[j] : j \in DOMAIN t} = {s[j] : j \in DOMAIN s} \cup {x}
      <4>1. \A j : j \in DOMAIN t <=> j \in DOMAIN s \/ j = Len(s) + 1 BY <2>7, <3>2
      <4> QED BY <2>7, <3>2, <4>1
    <3>4. g[m + 1] = t BY <2>5, <2>9, <3>1
    <3>5. {t[j] : j \in DOMAIN t} = {f[k] : k \in 1 .. m + 1} BY <2>1, <2>2, <2>6, <3>3
    <3>6. Listed(m + 1) BY <3>2, <3>4, <3>5
    <3>7. m + 1 \in 0 .. n OBVIOUS
    <3> HIDE DEF Listed
    <3> QED BY <3>6, <3>7
  <2> QED BY <2>8, <2>9
<1>6. n \in Good
  <2>1. 0 \in Int /\ 0 \in Nat /\ n \in Int /\ n \in 0 .. n OBVIOUS
  <2>2. PICK S : S = Good OBVIOUS
  <2> HIDE DEF Good
  <2>3. 0 .. n \subseteq S BY <1>4, <1>5, <2>1, <2>2, InductionUpTo
  <2> QED BY <2>1, <2>2, <2>3
<1>7. Listed(n) BY <1>6
<1>8. {FriendFiles[j] : j \in DOMAIN FriendFiles} = {f[k] : k \in 1 .. n} BY <1>3, <1>7
<1>9. IsSeq(FriendFiles) BY <1>3, <1>7
<1>10. {setup.friends[m] : m \in DOMAIN setup.friends} = {f[k] : k \in 1 .. n} BY <1>1, <1>2
<1> QED BY <1>8, <1>9, <1>10

\* The loop that gives each friend file to a chain.
LEMMA ChainsUnfold ==
    ASSUME setup \in Setups
    PROVE \E g : /\ g[0] = << >> /\ FriendChains = g[Len(FriendFiles)]
                 /\ \A m \in 1 .. Len(FriendFiles) : g[m] = AddFriendFile(g[m - 1], FriendFiles[m])
<1>1. PICK f : f = FriendFiles OBVIOUS
<1>2. PICK n \in Nat : n = Len(f) /\ DOMAIN f = 1 .. n BY <1>1, FilesListed, IsSeqIs
<1>3. \A m \in 1 .. n : f[m].events \in Seq(Int)
  <2> TAKE m \in 1 .. n
  <2>1. PICK k \in DOMAIN setup.friends : f[m] = setup.friends[k] BY <1>1, <1>2, FilesListed
  <2> QED BY <2>1, SetupsAssumption
<1> DEFINE L == {f[m].layout : m \in 1 .. n}
           R == [layout : L, events : Seq(Int)]
           P == Seq(R)
           Body(g, m) == IF m = 0 THEN << >> ELSE AddFriendFile(g[m - 1], f[m])
           Unfolds(g) == g = [m \in 0 .. n |-> Body(g, m)]
           step == [m \in 1 .. n |-> [x \in P |-> AddFriendFile(x, f[m])]]
<1>4. FriendChains = (CHOOSE g : Unfolds(g))[n] BY <1>1, <1>2 DEF FriendChains, ChainsOf
<1>5. \E g : Unfolds(g)
  <2>1. ASSUME NEW m \in 1 .. n, NEW x \in P PROVE AddFriendFile(x, f[m]) \in P
    <3>1. PICK y \in L : y = f[m].layout OBVIOUS
    <3>2. PICK e \in Seq(Int) : e = f[m].events BY <1>3
    <3>3. CASE \E l \in DOMAIN x : x[l].layout = y
      <4>1. AddFriendFile(x, f[m]) = [x EXCEPT ![Len(x)].events = @ \o e]
        BY <3>1, <3>2, <3>3 DEF AddFriendFile
      <4> HIDE DEF L
      <4>2. Len(x) \in DOMAIN x BY <3>3
      <4> HIDE DEF R
      <4>3. PICK r \in R : r = x[Len(x)] BY <4>2
      <4>4. PICK q : q = [r EXCEPT !.events = @ \o e] OBVIOUS
      <4>5. q \in R
        <5>1. r \in [layout : L, events : Seq(Int)] BY <4>3 DEF R
        <5>2. r.events \o e \in Seq(Int) BY <5>1
        <5>3. q \in [layout : L, events : Seq(Int)] BY <4>4, <5>1, <5>2
        <5> QED BY <5>3 DEF R
      <4>6. [x EXCEPT ![Len(x)].events = @ \o e] = [x EXCEPT ![Len(x)] = q] BY <4>2, <4>3, <4>4
      <4>7. [x EXCEPT ![Len(x)] = q] \in Seq(R) BY <4>2, <4>5
      <4> QED BY <4>1, <4>6, <4>7
    <3>4. CASE ~\E l \in DOMAIN x : x[l].layout = y
      <4>1. AddFriendFile(x, f[m]) = Append(x, [layout |-> y, events |-> e])
        BY <3>1, <3>2, <3>4 DEF AddFriendFile
      <4> HIDE DEF L
      <4>2. [layout |-> y, events |-> e] \in R OBVIOUS
      <4> HIDE DEF R
      <4> QED BY <4>1, <4>2
    <3> QED BY <3>1, <3>3, <3>4
  <2>2. << >> \in P OBVIOUS
  <2> HIDE DEF P
  <2>3. step \in [1 .. n -> [P -> P]] BY <2>1
  <2>4. PICK s : s = step OBVIOUS
  <2>5. \A m \in 1 .. n, x \in P : s[m][x] = AddFriendFile(x, f[m]) BY <2>4
  <2> HIDE DEF step
  <2>6. PICK g \in [0 .. n -> P] : g[0] = << >> /\ \A k \in 1 .. n : g[k] = s[k][g[k - 1]]
    <3>1. s \in [1 .. n -> [P -> P]] BY <2>3, <2>4
    <3>2. \E g : IsLoop(g, n, P, << >>, s) BY <2>2, <3>1, RecursionExists
    <3> QED BY <3>2 DEF IsLoop
  <2>7. \A k \in 0 .. n : g[k] = Body(g, k)
    <3> TAKE k \in 0 .. n
    <3>1. CASE k = 0 BY <2>6, <3>1
    <3>2. CASE k # 0
      <4>1. k \in 1 .. n /\ k - 1 \in 0 .. n BY <3>2
      <4> QED BY <2>5, <2>6, <3>2, <4>1
    <3> QED BY <3>1, <3>2
  <2>8. Unfolds(g)
    <3> HIDE DEF Body
    <3> QED BY <2>7
  <2> HIDE DEF Unfolds
  <2> QED BY <2>8
<1>6. PICK g : Unfolds(g) /\ FriendChains = g[n]
  <2> HIDE DEF Unfolds
  <2> QED BY <1>4, <1>5
<1>7. \A m \in 0 .. n : g[m] = Body(g, m)
  <2> HIDE DEF Body
  <2> QED BY <1>6
<1>8. g[0] = << >>
  <2>1. 0 \in 0 .. n OBVIOUS
  <2> QED BY <1>7, <2>1
<1>9. ASSUME NEW m \in 1 .. n PROVE g[m] = AddFriendFile(g[m - 1], f[m])
  <2>1. m \in 0 .. n /\ m # 0 OBVIOUS
  <2> QED BY <1>7, <2>1
<1> QED BY <1>1, <1>2, <1>6, <1>8, <1>9

\* As many events as are asked for cannot be fewer than none.
LEMMA SignalMaxIs ==
    ASSUME setup \in Setups, IsMixed, NEW s \in 1 .. Len(setup.signals)
    PROVE SignalMax(s) \in Nat
<1>1. PICK num : num = Ratio(s).num OBVIOUS
<1>2. PICK den : den = Ratio(s).den OBVIOUS
<1>3. num \in Nat \ {0} /\ den \in Nat \ {0}
  <2>1. setup.signals[s].background \in Nat \ {0} BY SignalsAssumption
  <2> QED BY <1>1, <1>2, <2>1, SignalsAssumption DEF Ratio
<1>4. PICK n \in Nat : n = Len(Chain) BY SetupsAssumption DEF Chain
<1>5. PICK m \in Nat : m = Len(setup.signals[s].events) BY SignalsAssumption
<1>6. m * den \in Nat /\ n * num \in Nat BY <1>3
<1>7. (m * den) \div num \in Nat BY <1>3, <1>6, DivMod
<1>8. (n * num) \div den \in Nat BY <1>3, <1>6, DivMod
<1>9. SignalMax(s) = IF (m * den) \div num > n THEN n + (n * num) \div den ELSE (m * den) \div num
  BY <1>1, <1>2, <1>4, <1>5 DEF SignalMax
<1> QED BY <1>7, <1>8, <1>9

LEMMA LowestIs ==
    ASSUME NEW end \in Nat, NEW n \in Nat, NEW limits \in [1 .. n -> Nat]
    PROVE Lowest(end, limits) \in Nat
<1>1. Len(limits) = n OBVIOUS
<1> DEFINE Round(x, s) == IF x = 0 \/ x > limits[s] THEN limits[s] ELSE x
           Body(g, s) == IF s = 0 THEN end ELSE Round(g[s - 1], s)
           Unfolds(g) == g = [s \in 0 .. n |-> Body(g, s)]
           step == [s \in 1 .. n |-> [x \in Nat |-> Round(x, s)]]
<1>2. Lowest(end, limits) = (CHOOSE g : Unfolds(g))[n] BY <1>1 DEF Lowest
<1>3. \A s \in 1 .. n, x \in Nat : Round(x, s) \in Nat OBVIOUS
<1>4. \E g : Unfolds(g)
  <2> HIDE DEF Round
  <2>1. PICK st : st = step OBVIOUS
  <2>2. st \in [1 .. n -> [Nat -> Nat]] BY <1>3, <2>1
  <2>3. \A m \in 1 .. n, x \in Nat : st[m][x] = Round(x, m) BY <2>1
  <2> HIDE DEF step
  <2>4. PICK g \in [0 .. n -> Nat] : g[0] = end /\ \A k \in 1 .. n : g[k] = st[k][g[k - 1]]
    <3>1. \E g : IsLoop(g, n, Nat, end, st) BY <2>2, RecursionExists
    <3> QED BY <3>1 DEF IsLoop
  <2>5. \A k \in 0 .. n : g[k] = Body(g, k)
    <3> TAKE k \in 0 .. n
    <3>1. CASE k = 0 BY <2>4, <3>1
    <3>2. CASE k # 0
      <4>1. k \in 1 .. n /\ k - 1 \in 0 .. n BY <3>2
      <4> QED BY <2>3, <2>4, <3>2, <4>1
    <3> QED BY <3>1, <3>2
  <2>6. Unfolds(g)
    <3> HIDE DEF Body
    <3> QED BY <2>5
  <2> HIDE DEF Unfolds
  <2> QED BY <2>6
<1>5. PICK g : Unfolds(g) /\ Lowest(end, limits) = g[n]
  <2> HIDE DEF Unfolds
  <2> QED BY <1>2, <1>4
<1>6. \A s \in 0 .. n : g[s] = Body(g, s)
  <2> HIDE DEF Body
  <2> QED BY <1>5
<1> DEFINE Good == {s \in 0 .. n : g[s] \in Nat}
<1>7. 0 \in Good
  <2>1. 0 \in 0 .. n OBVIOUS
  <2> QED BY <1>6, <2>1
<1>8. ASSUME NEW m \in 0 .. n - 1, m \in Good PROVE m + 1 \in Good
  <2>1. m + 1 \in 1 .. n /\ m + 1 \in 0 .. n /\ m + 1 # 0 /\ (m + 1) - 1 = m OBVIOUS
  <2>2. g[m + 1] = Round(g[m], m + 1)
    <3> HIDE DEF Round
    <3> QED BY <1>6, <2>1
  <2>3. limits[m + 1] \in Nat BY <2>1
  <2>4. g[m + 1] \in Nat BY <1>8, <2>2, <2>3
  <2> QED BY <2>1, <2>4
<1>9. n \in Good
  <2>1. 0 \in Int /\ 0 \in Nat /\ n \in Int /\ n \in 0 .. n OBVIOUS
  <2>2. PICK S : S = Good OBVIOUS
  <2> HIDE DEF Good
  <2>3. 0 .. n \subseteq S BY <1>7, <1>8, <2>1, <2>2, InductionUpTo
  <2> QED BY <2>1, <2>2, <2>3
<1> QED BY <1>5, <1>9

LEMMA MixedMaxIs ==
    ASSUME setup \in Setups, IsMixed, NEW end \in Nat
    PROVE CheckMaxEventNo(end) \in Nat
<1>1. PICK n \in Nat : n = Len(setup.signals) /\ Signal = 1 .. n BY SignalsAssumption DEF Signal
<1>2. PICK limits : limits = [s \in Signal |-> SignalMax(s)] OBVIOUS
<1>3. limits \in [1 .. n -> Nat] BY <1>1, <1>2, SignalMaxIs
<1>4. CheckMaxEventNo(end) = Lowest(end, limits) BY <1>2 DEF CheckMaxEventNo
<1> QED BY <1>3, <1>4, LowestIs

-----------------------------------------------------------------------------
(* The friends. *)

\* off[j] events of the layout of the j-th friend file are in the friend files before
\* it.  Files of one layout were added one after another, and have an event for each
\* event of the chain.
BeginsAt(off) ==
    \A j \in DOMAIN FriendFiles :
        LET file == FriendFiles[j]
            events == file.events
        IN  /\ off[j] \in Nat
            /\ IF j > 1 /\ FriendFiles[j - 1].layout = file.layout
               THEN off[j] = off[j - 1] + Len(FriendFiles[j - 1].events)
               ELSE off[j] = 0 /\ \A m \in 1 .. j - 1 : FriendFiles[m].layout # file.layout
            /\ \A n \in DOMAIN events :
                 off[j] + n <= Len(Chain) => events[n] = Chain[off[j] + n].id
            /\ \/ j < Len(FriendFiles) /\ FriendFiles[j + 1].layout = file.layout
               \/ off[j] + Len(events) >= Len(Chain)

FriendsInOrder == \E off : BeginsAt(off)

Layouts == {setup.friends[m].layout : m \in DOMAIN setup.friends}
FriendLevels == Seq([layout : Layouts, events : Seq(Int)])

\* The chains of the first j files.
ChainsMade(c, off, j) ==
    /\ c \in FriendLevels
    /\ {c[l].layout : l \in DOMAIN c} = {FriendFiles[m].layout : m \in 1 .. j}
    /\ \A l, k \in DOMAIN c : c[l].layout = c[k].layout => l = k
    /\ \A l \in DOMAIN c, n \in Nat \ {0} :
         n <= Len(c[l].events) /\ n <= Len(Chain) => c[l].events[n] = Chain[n].id
    /\ j > 0 => /\ Len(c) > 0 /\ c[Len(c)].layout = FriendFiles[j].layout
                /\ Len(c[Len(c)].events) = off[j] + Len(FriendFiles[j].events)
    /\ \A l \in DOMAIN c : l = Len(c) \/ Len(c[l].events) >= Len(Chain)

LEMMA NextFile ==
    ASSUME setup \in Setups, NEW off, BeginsAt(off), NEW j \in 0 .. Len(FriendFiles) - 1,
           NEW c, ChainsMade(c, off, j)
    PROVE ChainsMade(AddFriendFile(c, FriendFiles[j + 1]), off, j + 1)
<1> DEFINE f == FriendFiles
<1>1. f = FriendFiles OBVIOUS
<1>2. PICK n \in Nat : n = Len(f) /\ DOMAIN f = 1 .. n BY <1>1, FilesListed, IsSeqIs
<1>3. j \in Nat /\ j + 1 \in 1 .. n /\ (j + 1) - 1 = j /\ (j > 0 => j \in 1 .. n) BY <1>1, <1>2
<1>4. PICK x : x = f[j + 1] OBVIOUS
<1>5. PICK y \in Layouts : y = x.layout
  <2>1. PICK k \in DOMAIN setup.friends : x = setup.friends[k] BY <1>1, <1>2, <1>3, <1>4, FilesListed
  <2> QED BY <2>1 DEF Layouts
<1>6. PICK e \in Seq(Int) : e = x.events
  <2>1. PICK k \in DOMAIN setup.friends : x = setup.friends[k] BY <1>1, <1>2, <1>3, <1>4, FilesListed
  <2> QED BY <2>1, SetupsAssumption
<1>7. PICK o \in Nat : o = off[j + 1] BY <1>1, <1>2, <1>3 DEF BeginsAt
<1>8. PICK N \in Nat : N = Len(Chain) BY SetupsAssumption DEF Chain
<1>9. \A k \in DOMAIN e : o + k <= N => e[k] = Chain[o + k].id
  BY <1>1, <1>2, <1>3, <1>4, <1>6, <1>7, <1>8 DEF BeginsAt
<1>10. c \in FriendLevels /\ Len(c) \in Nat /\ DOMAIN c = 1 .. Len(c)
  BY DEF ChainsMade, FriendLevels
<1>11. PICK m \in Nat : m = Len(c) /\ DOMAIN c = 1 .. m BY <1>10
<1>12. \A l \in 1 .. m : c[l] \in [layout : Layouts, events : Seq(Int)]
  <2>1. PICK R : R = [layout : Layouts, events : Seq(Int)] OBVIOUS
  <2>2. c \in Seq(R) BY <1>10, <2>1 DEF FriendLevels
  <2>3. \A l \in 1 .. m : c[l] \in R BY <1>11, <2>2
  <2> QED BY <2>1, <2>3
<1>13. {c[l].layout : l \in 1 .. m} = {f[k].layout : k \in 1 .. j}
  <2>1. {c[l].layout : l \in DOMAIN c} = {f[k].layout : k \in 1 .. j} BY DEF ChainsMade
  <2> QED BY <1>11, <2>1, Zenon
<1>14. \A l \in 1 .. m, k \in Nat \ {0} :
         k <= Len(c[l].events) /\ k <= N => c[l].events[k] = Chain[k].id
  BY <1>8, <1>10, <1>11 DEF ChainsMade
<1>15. {f[k].layout : k \in 1 .. j + 1} = {c[l].layout : l \in 1 .. m} \cup {y}
  <2>2. \A k : k \in 1 .. j + 1 <=> k \in 1 .. j \/ k = j + 1 BY <1>3
  <2>3. f[j + 1].layout = y BY <1>4, <1>5
  <2> QED BY <1>13, <2>2, <2>3
<1>16. CASE j > 0 /\ f[j].layout = y
  <2>1. m > 0 /\ c[m].layout = y /\ Len(c[m].events) = off[j] + Len(f[j].events)
    BY <1>1, <1>11, <1>16 DEF ChainsMade
  <2>2. o = off[j] + Len(f[j].events)
    <3>1. PICK k : k = j + 1 OBVIOUS
    <3>2. k \in DOMAIN f /\ k > 1 /\ k - 1 = j /\ f[k - 1].layout = f[k].layout
      BY <1>2, <1>3, <1>4, <1>5, <1>16, <3>1
    <3>3. off[k] = off[k - 1] + Len(f[k - 1].events) BY <1>1, <3>2 DEF BeginsAt
    <3> QED BY <1>7, <3>1, <3>2, <3>3
  <2>3. PICK d : d = c[m].events OBVIOUS
  <2>4. d \in Seq(Int) /\ Len(d) = o BY <1>12, <2>1, <2>2, <2>3
  <2>5. PICK r : r = [c EXCEPT ![m].events = @ \o e] OBVIOUS
  <2>6. AddFriendFile(c, x) = r
    <3>1. m \in DOMAIN c /\ c[m].layout = x.layout BY <1>5, <1>11, <2>1
    <3> QED BY <1>6, <1>11, <2>5, <3>1 DEF AddFriendFile
  <2>7. /\ DOMAIN r = 1 .. m /\ \A l \in 1 .. m : l # m => r[l] = c[l]
        /\ r[m].layout = y /\ r[m].events = d \o e
        /\ r[m] \in [layout : Layouts, events : Seq(Int)]
    <3>1. c[m] \in [layout : Layouts, events : Seq(Int)] /\ m \in 1 .. m BY <1>12, <2>1
    <3>2. r = [c EXCEPT ![m] = [c[m] EXCEPT !.events = d \o e]] BY <2>3, <2>5
    <3>3. r[m] = [c[m] EXCEPT !.events = d \o e] BY <1>10, <1>11, <3>1, <3>2
    <3>4. d \o e \in Seq(Int) BY <2>4
    <3>5. r[m].layout = y /\ r[m].events = d \o e BY <2>1, <3>1, <3>3
    <3>6. r[m] \in [layout : Layouts, events : Seq(Int)] BY <3>1, <3>3, <3>4
    <3> QED BY <1>10, <1>11, <3>2, <3>5, <3>6
  <2>8. r \in FriendLevels /\ Len(r) = m
    <3>1. \A l \in 1 .. m : r[l] \in [layout : Layouts, events : Seq(Int)] BY <1>12, <2>7
    <3>2. r = [l \in 1 .. m |-> r[l]] BY <1>10, <1>11, <2>5
    <3>3. PICK R : R = [layout : Layouts, events : Seq(Int)] OBVIOUS
    <3>4. r \in [1 .. m -> R] BY <3>1, <3>2, <3>3
    <3>5. r \in Seq(R) /\ Len(r) = m
      <4>1. \A z : z \in [1 .. m -> R] => z \in Seq(R) /\ Len(z) = m OBVIOUS
      <4> QED BY <3>4, <4>1
    <3> QED BY <3>3, <3>5 DEF FriendLevels
  <2>9. \A l \in 1 .. m : r[l].layout = c[l].layout BY <2>1, <2>7
  <2>10. {r[l].layout : l \in DOMAIN r} = {f[k].layout : k \in 1 .. j + 1}
    <3>1. {r[l].layout : l \in DOMAIN r} = {c[l].layout : l \in 1 .. m} BY <2>7, <2>9
    <3>2. y \in {c[l].layout : l \in 1 .. m} BY <2>1
    <3> QED BY <1>15, <3>1, <3>2
  <2>11. \A l, k \in DOMAIN r : r[l].layout = r[k].layout => l = k
    BY <1>10, <1>11, <2>7, <2>9 DEF ChainsMade
  <2>12. Len(d \o e) = o + Len(e) /\ \A k \in 1 .. o + Len(e) :
           (d \o e)[k] = IF k <= o THEN d[k] ELSE e[k - o]
    <3>1. PICK t : t = d \o e OBVIOUS
    <3>2. Len(t) = o + Len(e) /\ \A k \in 1 .. o + Len(e) : t[k] = IF k <= o THEN d[k] ELSE e[k - o]
      BY <2>4, <3>1
    <3> QED BY <3>1, <3>2
  <2>13. ASSUME NEW l \in DOMAIN r, NEW k \in Nat \ {0}, k <= Len(r[l].events), k <= N
         PROVE r[l].events[k] = Chain[k].id
    <3>1. CASE l # m BY <1>14, <2>7, <2>13, <3>1
    <3>2. CASE l = m
      <4>0. r[l].events = d \o e BY <2>7, <3>2
      <4>1. k \in 1 .. o + Len(e) /\ r[l].events[k] = (d \o e)[k]
        <5>1. k <= Len(d \o e) BY <2>13, <4>0
        <5> QED BY <2>12, <4>0, <5>1
      <4>2. CASE k <= o
        <5>1. m \in 1 .. m /\ c[m].events = d /\ Len(d) = o BY <2>1, <2>3, <2>4
        <5>2. k \in Nat \ {0} /\ k <= N /\ k <= Len(c[m].events) BY <2>13, <4>2, <5>1
        <5>3. c[m].events[k] = Chain[k].id BY <1>14, <5>1, <5>2
        <5>4. d[k] = Chain[k].id BY <5>1, <5>3, Zenon
        <5> QED BY <2>12, <4>1, <4>2, <5>4
      <4>3. CASE k > o
        <5>1. k - o \in DOMAIN e /\ o + (k - o) = k BY <4>1, <4>3
        <5>2. e[k - o] = Chain[k].id BY <1>9, <2>13, <5>1
        <5> QED BY <2>12, <4>1, <4>3, <5>2
      <4> QED BY <4>2, <4>3
    <3> QED BY <3>1, <3>2
  <2>14. Len(r) > 0 /\ r[Len(r)].layout = f[j + 1].layout
         /\ Len(r[Len(r)].events) = off[j + 1] + Len(f[j + 1].events)
    BY <1>4, <1>5, <1>6, <1>7, <2>1, <2>7, <2>8, <2>12
  <2>15. \A l \in DOMAIN r : l = Len(r) \/ Len(r[l].events) >= N
    BY <1>8, <1>10, <1>11, <2>7, <2>8 DEF ChainsMade
  <2>16. ChainsMade(r, off, j + 1)
    BY <1>3, <1>8, <2>7, <2>8, <2>10, <2>11, <2>13, <2>14, <2>15 DEF ChainsMade
  <2> QED BY <1>4, <2>6, <2>16
<1>17. CASE ~(j > 0 /\ f[j].layout = y)
  <2>1. o = 0 /\ \A k \in 1 .. j : f[k].layout # y
    BY <1>1, <1>2, <1>3, <1>4, <1>5, <1>7, <1>17 DEF BeginsAt
  <2>2. y \notin {c[l].layout : l \in 1 .. m}
    <3>1. y \notin {f[k].layout : k \in 1 .. j} BY <2>1
    <3> QED BY <1>13, <3>1
  <2>3. PICK q : q = [layout |-> y, events |-> e] OBVIOUS
  <2>4. q.layout = y /\ q.events = e BY <2>3
  <2>5. PICK r : r = Append(c, q) OBVIOUS
  <2>6. AddFriendFile(c, x) = r
    BY <1>5, <1>6, <1>10, <1>11, <2>2, <2>3, <2>5 DEF AddFriendFile
  <2>7. /\ r \in FriendLevels /\ Len(r) = m + 1 /\ DOMAIN r = 1 .. m + 1
        /\ \A l \in 1 .. m : r[l] = c[l]
        /\ r[m + 1] = q
    <3>1. q \in [layout : Layouts, events : Seq(Int)] BY <2>3
    <3>2. PICK R : R = [layout : Layouts, events : Seq(Int)] OBVIOUS
    <3>3. c \in Seq(R) /\ q \in R BY <1>10, <3>1, <3>2 DEF FriendLevels
    <3>4. r \in Seq(R) /\ Len(r) = m + 1 /\ DOMAIN r = 1 .. m + 1
          /\ (\A l \in 1 .. m : r[l] = c[l]) /\ r[m + 1] = q
      BY <1>11, <2>5, <3>3
    <3> QED BY <3>2, <3>4 DEF FriendLevels
  <2>8. {r[l].layout : l \in DOMAIN r} = {f[k].layout : k \in 1 .. j + 1}
    <3>1. \A l : l \in DOMAIN r <=> l \in 1 .. m \/ l = m + 1 BY <2>7
    <3>2. {r[l].layout : l \in DOMAIN r} = {c[l].layout : l \in 1 .. m} \cup {y} BY <2>4, <2>7, <3>1
    <3> QED BY <1>15, <3>2
  <2>9. ASSUME NEW l \in DOMAIN r, NEW k \in DOMAIN r, r[l].layout = r[k].layout PROVE l = k
    <3>1. \A z \in DOMAIN r : z \in 1 .. m \/ z = m + 1 BY <2>7
    <3>2. \A z \in 1 .. m : r[z].layout # y BY <2>2, <2>7
    <3> QED BY <1>10, <1>11, <2>4, <2>7, <2>9, <3>1, <3>2 DEF ChainsMade
  <2>10. ASSUME NEW l \in DOMAIN r, NEW k \in Nat \ {0}, k <= Len(r[l].events), k <= N
         PROVE r[l].events[k] = Chain[k].id
    <3>1. CASE l # m + 1
      <4>1. l \in 1 .. m BY <2>7, <3>1
      <4> QED BY <1>14, <2>7, <2>10, <4>1
    <3>2. CASE l = m + 1
      <4>1. k \in DOMAIN e /\ 0 + k = k /\ r[l].events = e BY <2>4, <2>7, <2>10, <3>2
      <4> QED BY <1>9, <2>1, <2>10, <4>1
    <3> QED BY <3>1, <3>2
  <2>11. Len(r) > 0 /\ r[Len(r)].layout = f[j + 1].layout
         /\ Len(r[Len(r)].events) = off[j + 1] + Len(f[j + 1].events)
    BY <1>4, <1>5, <1>6, <1>7, <2>1, <2>4, <2>7
  <2>12. ASSUME NEW l \in DOMAIN r, l # Len(r) PROVE Len(r[l].events) >= N
    <3>1. l \in 1 .. m /\ m > 0 BY <2>7, <2>12
    <3>2. CASE l # m BY <1>8, <1>10, <1>11, <2>7, <3>1, <3>2 DEF ChainsMade
    <3>3. CASE l = m
      <4>1. j > 0
        <5> SUFFICES ASSUME j = 0 PROVE FALSE BY <1>3
        <5>1. c[l].layout \in {c[z].layout : z \in 1 .. m} BY <3>1
        <5>2. c[l].layout \in {f[k].layout : k \in 1 .. j} BY <1>13, <5>1
        <5> QED BY <5>2
      <4>2. Len(c[m].events) = off[j] + Len(f[j].events)
        BY <1>1, <1>11, <4>1 DEF ChainsMade
      <4>3. off[j] + Len(f[j].events) >= N
        BY <1>1, <1>2, <1>3, <1>4, <1>5, <1>8, <1>17, <4>1 DEF BeginsAt
      <4> QED BY <2>7, <3>1, <3>3, <4>2, <4>3
    <3> QED BY <3>2, <3>3
  <2>13. ChainsMade(r, off, j + 1)
    BY <1>3, <1>8, <2>7, <2>8, <2>9, <2>10, <2>11, <2>12 DEF ChainsMade
  <2> QED BY <1>4, <2>6, <2>13
<1> QED BY <1>16, <1>17

\* There is a chain for each layout, with an entry of the event for each of its events.
FriendsFit ==
    /\ Len(FriendChains) \in Nat /\ DOMAIN FriendChains = 1 .. Len(FriendChains)
    /\ Len(FriendChains) = Cardinality({file.layout : file \in ToSet(setup.friends)})
    /\ \A l \in DOMAIN FriendChains, e \in Nat :
         e < Len(Chain) => /\ e < Len(FriendChains[l].events)
                           /\ FriendChains[l].events[e + 1] = Chain[e + 1].id

LEMMA FriendsMade == ASSUME setup \in Setups, FriendsInOrder PROVE FriendsFit
<1>1. PICK n \in Nat : n = Len(FriendFiles) /\ DOMAIN FriendFiles = 1 .. n BY FilesListed, IsSeqIs
<1>2. PICK off : BeginsAt(off) BY DEF FriendsInOrder
<1>3. PICK g : /\ g[0] = << >> /\ FriendChains = g[n]
               /\ \A m \in 1 .. n : g[m] = AddFriendFile(g[m - 1], FriendFiles[m])
  BY <1>1, ChainsUnfold
<1> DEFINE Good == {m \in 0 .. n : ChainsMade(g[m], off, m)}
<1>4. 0 \in Good
  <2>1. << >> \in FriendLevels /\ DOMAIN << >> = {} /\ Len(<< >>) = 0 BY DEF FriendLevels
  <2>2. PICK c : c = << >> OBVIOUS
  <2>3. {c[l].layout : l \in DOMAIN c} = {FriendFiles[m].layout : m \in 1 .. 0} BY <2>1, <2>2
  <2>4. ChainsMade(c, off, 0) BY <2>1, <2>2, <2>3 DEF ChainsMade
  <2>5. 0 \in 0 .. n OBVIOUS
  <2> QED BY <1>3, <2>2, <2>4, <2>5
<1>5. ASSUME NEW m \in 0 .. n - 1, m \in Good PROVE m + 1 \in Good
  <2>1. m + 1 \in 0 .. n /\ m + 1 \in 1 .. n /\ (m + 1) - 1 = m BY <1>1
  <2>2. g[m + 1] = AddFriendFile(g[m], FriendFiles[m + 1]) BY <1>3, <2>1
  <2>3. ChainsMade(g[m], off, m) BY <1>5
  <2>4. ChainsMade(g[m + 1], off, m + 1) BY <1>1, <1>2, <2>2, <2>3, NextFile
  <2> QED BY <2>1, <2>4
<1>6. n \in Good
  <2>1. 0 \in Int /\ 0 \in Nat /\ n \in Int /\ n \in 0 .. n OBVIOUS
  <2>2. PICK S : S = Good OBVIOUS
  <2> HIDE DEF Good
  <2>3. 0 .. n \subseteq S BY <1>4, <1>5, <2>1, <2>2, InductionUpTo
  <2> QED BY <2>1, <2>2, <2>3
<1>7. PICK c : c = FriendChains OBVIOUS
<1>8. ChainsMade(c, off, n) BY <1>3, <1>6, <1>7
<1>9. PICK m \in Nat : m = Len(c) /\ DOMAIN c = 1 .. m BY <1>8 DEF ChainsMade, FriendLevels
<1>10. PICK N \in Nat : N = Len(Chain) BY SetupsAssumption DEF Chain
<1>11. m = Cardinality({file.layout : file \in ToSet(setup.friends)})
  <2> DEFINE S == {FriendFiles[j].layout : j \in 1 .. n}
  <2>1. {file.layout : file \in ToSet(setup.friends)} = S
    <3>1. {FriendFiles[j] : j \in 1 .. n} = ToSet(setup.friends) BY <1>1, FilesListed DEF ToSet
    <3> QED BY <3>1
  <2>2. {c[l].layout : l \in DOMAIN c} = S BY <1>8 DEF ChainsMade
  <2>3. \A l, k \in 1 .. m : c[l].layout = c[k].layout => l = k BY <1>8, <1>9 DEF ChainsMade
  <2>4. PICK h : h = [l \in 1 .. m |-> c[l].layout] OBVIOUS
  <2>5. \A y \in S : \E l \in 1 .. m : c[l].layout = y BY <1>9, <2>2
  <2>6. \A l \in 1 .. m : c[l].layout \in S BY <1>9, <2>2
  <2> HIDE DEF S
  <2>7. h \in Bijection(1 .. m, S)
    <3>1. h \in [1 .. m -> S] BY <2>4, <2>6
    <3>2. \A a, b \in 1 .. m : h[a] = h[b] => a = b BY <2>3, <2>4
    <3>3. \A y \in S : \E l \in 1 .. m : h[l] = y BY <2>4, <2>5
    <3> QED BY <3>1, <3>2, <3>3 DEF Bijection, Injection, Surjection, IsInjective
  <2>8. Cardinality(S) = m BY <2>7, FS_CountingElements DEF ExistsBijection
  <2> QED BY <2>1, <2>8
<1>12. ASSUME NEW l \in 1 .. m PROVE Len(c[l].events) >= N /\ Len(c[l].events) \in Nat
  <2>1. Len(c[l].events) \in Nat
    <3>1. PICK R : R = [layout : Layouts, events : Seq(Int)] OBVIOUS
    <3>2. c \in Seq(R) BY <1>8, <3>1 DEF ChainsMade, FriendLevels
    <3>3. c[l] \in R BY <1>9, <3>2
    <3>4. c[l].events \in Seq(Int) BY <3>1, <3>3
    <3> QED BY <3>4
  <2>2. CASE l # m BY <1>8, <1>9, <1>10, <2>1, <2>2 DEF ChainsMade
  <2>3. CASE l = m
    <3>1. n > 0
      <4> SUFFICES ASSUME n = 0 PROVE FALSE OBVIOUS
      <4>1. c[l].layout \in {c[k].layout : k \in DOMAIN c} BY <1>9
      <4>2. {c[k].layout : k \in DOMAIN c} = {FriendFiles[k].layout : k \in 1 .. n} BY <1>8 DEF ChainsMade
      <4>3. {FriendFiles[k].layout : k \in 1 .. 0} = {} OBVIOUS
      <4> QED BY <4>1, <4>2, <4>3
    <3>2. Len(c[m].events) = off[n] + Len(FriendFiles[n].events) BY <1>8, <1>9, <3>1 DEF ChainsMade
    <3>3. off[n] + Len(FriendFiles[n].events) >= N
      <4>1. n \in DOMAIN FriendFiles /\ ~(n < Len(FriendFiles)) BY <1>1, <3>1
      <4> QED BY <1>2, <1>10, <4>1 DEF BeginsAt
    <3> QED BY <2>1, <2>3, <3>2, <3>3
  <2> QED BY <2>2, <2>3
<1>13. ASSUME NEW l \in 1 .. m, NEW e \in Nat, e < N
       PROVE e < Len(c[l].events) /\ c[l].events[e + 1] = Chain[e + 1].id
  <2>1. Len(c[l].events) >= N /\ Len(c[l].events) \in Nat BY <1>12
  <2>2. e + 1 \in Nat \ {0} /\ e + 1 <= N /\ e + 1 <= Len(c[l].events) BY <1>13, <2>1
  <2>3. c[l].events[e + 1] = Chain[e + 1].id BY <1>8, <1>9, <1>10, <2>2 DEF ChainsMade
  <2> QED BY <1>13, <2>1, <2>3
<1> QED BY <1>7, <1>9, <1>10, <1>11, <1>13 DEF FriendsFit

-----------------------------------------------------------------------------
(* The invariant on the events. *)

\* The caller asks for a range that the input has: a mixed run has an end, only Run may
\* have none, and RunEventReco is not asked for more events than there are by its start.
RangeExists ==
    IF IsMixed THEN setup.end \in Nat
    ELSE /\ Method = "Run" => setup.end \in Nat \cup {-1}
         /\ Method = "RunEventReco" => /\ setup.end \in Nat
                                       /\ setup.end = 0 => setup.start <= Len(Chain)

InputFits == (~IsMixed => FriendsInOrder) /\ RangeExists

Fills == Method \in {"Run", "RunSingleEntry"}

\* What is filled is what was seen.
TreeInv == IsSeq(tree) /\ Len(tree) = IF Fills THEN Len(seen) ELSE 0

\* Where the loop over the files ends.
Limit ==
    CASE Method = "Run" -> IF WantedTo < Len(Chain) THEN WantedTo ELSE Len(Chain)
      [] Method = "RunEventReco" -> WantedTo
      [] OTHER -> Len(setup.entries)

RangeMatch ==
    /\ range.to \in Int
    /\ Limit = IF Method = "Run" /\ (range.endless \/ Len(Chain) < range.to) THEN Len(Chain)
               ELSE range.to

CountInv ==
    /\ pc \in {"loop", "event"} => RangeMatch
    /\ pc = "loop" => Len(seen) = 0 \/ i <= Limit
    /\ pc = "event" => i < Limit
    /\ pc = "end" /\ ~gFRAIsInterrupted => Len(seen) = WantedEvents

\* An event with all its friends.
Joined(friends, event) ==
    /\ Len(friends) = Len(FriendChains) /\ DOMAIN friends = DOMAIN FriendChains
    /\ \A l \in DOMAIN FriendChains : friends[l] = event.id

IsEntry(event, e) == e < Len(Chain) => event = Chain[e + 1]

\* The k-th event is the one that was asked for, and was filled as the tasks saw it.
WholeEvent(k) ==
    /\ IsEntry(seen[k].event, WantedEntry(k))
    /\ Joined(seen[k].friends, seen[k].event)
    /\ Fills => tree[k] = [event |-> seen[k].event, friends |-> seen[k].friends,
                           header |-> Header(seen[k].event.run, seen[k].event.id, 0, seen[k].time)]

SeenWhole == \A k \in DOMAIN seen : WholeEvent(k)

FilesInv ==
    /\ Joined(data.friends, data.main)
    /\ SeenWhole
    /\ pc = "event" => IsEntry(data.main, WantedEntry(Len(seen) + 1)) /\ fCurrentTime = fEventTime
    /\ CountInv

\* Events of a chain of a mixed run among the first that were filled.
EventsOf(c) == IF c = 0 THEN Chain ELSE setup.signals[c].events
Chains == 0 .. Len(setup.signals)
TakenBefore(k, c) == Cardinality({j \in 1 .. k - 1 : tree[j].header.file = c})

\* The header names where the event is from.
Named(h, event, k) ==
    /\ h.file \in Chains /\ h.entry = TakenBefore(k, h.file)
    /\ h.entry < Len(EventsOf(h.file)) => event = EventsOf(h.file)[h.entry + 1]

MixedLimit == IF setup.end = 0 THEN CheckMaxEventNo(0) ELSE setup.end

MixedInv ==
    /\ fCurrentEntry \in [Chains -> Nat]
    /\ \A k \in DOMAIN tree : Named(tree[k].header, tree[k].event, k) /\ tree[k].header.time = seen[k].time
    /\ Fills => \A c \in Chains :
         fCurrentEntry[c] = TakenBefore(Len(tree) + 1, c)
                              + IF pc = "event" /\ outHeader.file = c THEN 1 ELSE 0
    /\ pc = "event" => /\ Fills => Named(outHeader, data.main, Len(tree) + 1)
                       /\ outHeader.time = fCurrentTime
    /\ Method = "Run" =>
         /\ Len(tree) <= MixedLimit
         /\ pc \in {"loop", "event"} => ~range.endless /\ range.to \in Int /\ range.to <= MixedLimit
                                        /\ Len(seen) <= i
         /\ pc = "event" => i < range.to

EventsInv == TreeInv /\ IF IsMixed THEN MixedInv ELSE FilesInv

-----------------------------------------------------------------------------
(* The steps of a run over files. *)

LEMMA InputStays ==
    ASSUME setup' = setup
    PROVE /\ FriendChains' = FriendChains /\ Chain' = Chain /\ IsMixed' = IsMixed
          /\ Method' = Method /\ Fills' = Fills /\ Limit' = Limit /\ LoopFrom' = LoopFrom
          /\ \A k : WantedEntry(k)' = WantedEntry(k)
          /\ \A c : EventsOf(c)' = EventsOf(c)
          /\ Chains' = Chains
<1>1. FriendFiles' = FriendFiles BY DEF FriendFiles
<1>2. FriendChains' = FriendChains BY <1>1 DEF FriendChains
<1>3. Chain' = Chain /\ IsMixed' = IsMixed /\ Method' = Method BY SetupStays
<1>4. Fills' = Fills BY <1>3 DEF Fills
<1>5. WantedTo' = WantedTo /\ WantedFrom' = WantedFrom BY <1>3 DEF WantedTo, WantedFrom
<1>6. Limit' = Limit /\ LoopFrom' = LoopFrom BY <1>3, <1>5 DEF Limit, LoopFrom
<1>7. \A k : WantedEntry(k)' = WantedEntry(k) BY <1>3, <1>5 DEF WantedEntry
<1>8. \A c : EventsOf(c)' = EventsOf(c) BY <1>3 DEF EventsOf
<1>9. Chains' = Chains BY DEF Chains
<1> QED BY <1>2, <1>3, <1>4, <1>6, <1>7, <1>8, <1>9

LEMMA FileEntry ==
    ASSUME setup \in Setups, FriendsFit, NEW e \in Nat, NEW d, Joined(d.friends, d.main)
    PROVE LET r == Entry(e, d) IN Joined(r.friends, r.main) /\ IsEntry(r.main, e)
<1>1. PICK r : r = Entry(e, d) OBVIOUS
<1>2. PICK n \in Nat : n = Len(FriendChains) /\ DOMAIN FriendChains = 1 .. n BY DEF FriendsFit
<1>3. CASE e < Len(Chain)
  <2>1. PICK g : g = [l \in DOMAIN FriendChains |->
                        LET events == FriendChains[l].events
                        IN  IF e < Len(events) THEN events[e + 1] ELSE d.friends[l]]
    OBVIOUS
  <2>2. r = [main |-> Chain[e + 1], friends |-> g] BY <1>1, <1>3, <2>1 DEF Entry
  <2>3. r.main = Chain[e + 1] /\ r.friends = g BY <2>2
  <2>4. DOMAIN g = 1 .. n /\ Len(g) = n BY <1>2, <2>1
  <2>5. \A l \in 1 .. n : g[l] = Chain[e + 1].id
    <3> TAKE l \in 1 .. n
    <3>1. e < Len(FriendChains[l].events) /\ FriendChains[l].events[e + 1] = Chain[e + 1].id
      BY <1>2, <1>3 DEF FriendsFit
    <3> QED BY <1>2, <2>1, <3>1
  <2> QED BY <1>1, <1>2, <2>3, <2>4, <2>5 DEF Joined, IsEntry
<1>4. CASE ~(e < Len(Chain)) BY <1>4 DEF Entry, IsEntry
<1> QED BY <1>3, <1>4

LEMMA SeenWholeStays ==
    ASSUME setup' = setup, seen' = seen, tree' = tree, SeenWhole
    PROVE SeenWhole'
<1> SUFFICES ASSUME NEW k \in DOMAIN seen PROVE WholeEvent(k)' BY DEF SeenWhole
<1>1. WholeEvent(k) BY DEF SeenWhole
<1> QED BY <1>1, InputStays DEF WholeEvent, IsEntry, Joined

\* A range that exists has as many events as the property counts.
LEMMA WantedIs ==
    ASSUME setup \in Setups, ~IsMixed, RangeExists
    PROVE /\ Limit \in Nat /\ LoopFrom \in Nat
          /\ WantedEvents = IF LoopFrom < Limit THEN Limit - LoopFrom ELSE 0
<1>1. PICK n \in Nat : n = Len(Chain) BY SetupsAssumption DEF Chain
<1>2. setup.start \in Nat /\ setup.entries \in Seq(Nat) BY SetupsAssumption
<1>3. CASE Method \in {"Run", "RunEventReco"}
  <2>1. setup.end \in Nat \cup {-1} BY <1>3 DEF RangeExists
  <2>2. PICK a \in Nat : a = WantedFrom BY <1>2 DEF WantedFrom
  <2>3. PICK b \in Nat : b = WantedTo BY <1>1, <1>2, <2>1 DEF WantedTo
  <2>4. LoopFrom = a BY <1>3, <2>2 DEF LoopFrom
  <2>5. PICK m \in Nat : m = IF Method = "Run" /\ ~(b < n) THEN n ELSE b OBVIOUS
  <2>6. Limit = m BY <1>1, <1>3, <2>3, <2>5 DEF Limit
  <2>7. {e \in a .. b - 1 : Method = "Run" => e < n} = a .. m - 1 BY <2>5
  <2>8. WantedEvents = Cardinality(a .. m - 1)
    BY <1>1, <1>3, <2>2, <2>3, <2>7 DEF WantedEvents
  <2>9. a \in Int /\ m - 1 \in Int OBVIOUS
  <2>10. Cardinality(a .. m - 1) = IF a > m - 1 THEN 0 ELSE m - 1 - a + 1 BY <2>9, FS_Interval
  <2>11. (IF a > m - 1 THEN 0 ELSE m - 1 - a + 1) = IF a < m THEN m - a ELSE 0 OBVIOUS
  <2> QED BY <2>4, <2>6, <2>8, <2>10, <2>11
<1>4. CASE Method \in {"RunSingleEntry", "RunMQ"}
  <2>1. Limit = Len(setup.entries) /\ LoopFrom = 0 BY <1>4 DEF Limit, LoopFrom
  <2>2. WantedEvents = Len(setup.entries) BY <1>4 DEF WantedEvents
  <2> QED BY <1>2, <2>1, <2>2
<1> QED BY <1>3, <1>4, SetupsAssumption DEF Method

LEMMA PartsStay ==
    ASSUME setup' = setup
    PROVE \A f, event, e : Joined(f, event)' = Joined(f, event) /\ IsEntry(event, e)' = IsEntry(event, e)
  BY InputStays DEF Joined, IsEntry

LEMMA EventsInit == ASSUME Init, InputFits PROVE EventsInv
<1>1. setup \in Setups /\ pc = "init" /\ seen = << >> /\ tree = << >> BY DEF Init
<1>2. IsSeq(tree) /\ Len(tree) = 0 /\ Len(seen) = 0 /\ DOMAIN tree = {} /\ DOMAIN seen = {}
  BY <1>1, EmptyIsSeq
<1>3. TreeInv BY <1>2 DEF TreeInv
<1>4. CASE IsMixed
  <2>1. fCurrentEntry = [c \in Chains |-> 0] BY DEF Init, Chains
  <2>2. \A c : TakenBefore(1, c) = 0
    <3> TAKE c
    <3>1. {j \in 1 .. 1 - 1 : tree[j].header.file = c} = {} OBVIOUS
    <3> QED BY <3>1, FS_EmptySet DEF TakenBefore
  <2>3. Method = "Run" => MixedLimit \in Nat
    <3>1. setup.end \in Nat BY <1>4 DEF InputFits, RangeExists
    <3> QED BY <1>1, <1>4, <3>1, MixedMaxIs DEF MixedLimit
  <2>4. Len(tree) + 1 = 1 BY <1>2
  <2> QED BY <1>1, <1>2, <1>3, <1>4, <2>1, <2>2, <2>3, <2>4 DEF EventsInv, MixedInv
<1>5. CASE ~IsMixed
  <2>1. FriendsFit BY <1>1, <1>5, FriendsMade DEF InputFits
  <2>2. PICK n \in Nat : n = Len(FriendChains) /\ DOMAIN FriendChains = 1 .. n BY <2>1 DEF FriendsFit
  <2>3. PICK f : f = [l \in 1 .. n |-> 0] OBVIOUS
  <2>4. Len(f) = n /\ DOMAIN f = 1 .. n /\ \A l \in 1 .. n : f[l] = 0 BY <2>3
  <2>5. data.friends = f /\ data.main.id = 0 BY <2>2, <2>3 DEF Init
  <2>6. Joined(data.friends, data.main) BY <2>2, <2>4, <2>5 DEF Joined
  <2> QED BY <1>1, <1>2, <1>3, <1>5, <2>6 DEF EventsInv, FilesInv, SeenWhole, CountInv
<1> QED BY <1>4, <1>5

-----------------------------------------------------------------------------
(* The steps of a run over files. *)

Fitting == ParametersInv /\ TimesInv /\ EventsInv /\ InputFits

LEMMA TreeStays ==
    ASSUME TreeInv, setup' = setup, seen' = seen, tree' = tree
    PROVE TreeInv'
  BY InputStays DEF TreeInv

LEMMA FilesRunInit == ASSUME Fitting, ~IsMixed, RunInit PROVE EventsInv'
<1>1. setup' = setup /\ pc' = "ready" /\ seen' = seen /\ tree' = tree BY DEF RunInit, output
<1>2. setup \in Setups /\ FriendsFit BY FriendsMade DEF Fitting, ParametersInv, InputFits
<1>3. TreeInv' /\ SeenWhole' BY <1>1, TreeStays, SeenWholeStays DEF Fitting, EventsInv, FilesInv
<1>4. PICK d : d = data /\ Joined(d.friends, d.main) BY DEF Fitting, EventsInv, FilesInv
<1>5. PICK r : r = Entry(0, d) OBVIOUS
<1>6. Joined(r.friends, r.main) BY <1>2, <1>4, <1>5, FileEntry
<1>7. data' = r BY <1>4, <1>5 DEF RunInit
<1>8. Joined(data.friends, data.main)' BY <1>1, <1>6, <1>7, PartsStay
<1> QED BY <1>1, <1>3, <1>8, InputStays DEF EventsInv, FilesInv, CountInv

\* The arguments of the call make a range that ends where the events that are wanted end.
LEMMA RangeBegins ==
    ASSUME Fitting, ~IsMixed, Start
    PROVE RangeMatch'
<1>1. setup' = setup /\ setup \in Setups BY DEF Start, Fitting, ParametersInv
<1>2. PICK n \in Nat : n = Len(Chain) BY <1>1, SetupsAssumption DEF Chain
<1>3. PICK s \in Nat : s = setup.start BY <1>1, SetupsAssumption
<1>4. PICK r : r = range' OBVIOUS
<1>5. /\ r.to \in Int
      /\ Limit = IF Method = "Run" /\ (r.endless \/ n < r.to) THEN n ELSE r.to
  <2>1. CASE Method \in {"Run", "RunEventReco"}
    <3>1. PICK e \in Nat \cup {-1} : e = setup.end /\ (e = -1 => Method = "Run")
      BY <2>1 DEF Fitting, InputFits, RangeExists
    <3>2. PICK max : max = IF e # 0 THEN e ELSE n OBVIOUS
    <3>3. CheckMaxEventNo(e) = max BY <1>2, <3>2 DEF CheckMaxEventNo
    <3>4. r = EventRange(s, e) BY <1>3, <1>4, <2>1, <3>1 DEF Start
    <3>5. CASE e = -1
      <4>1. r = [from |-> s, to |-> -1, endless |-> TRUE] BY <3>2, <3>3, <3>4, <3>5 DEF EventRange
      <4>2. r.to = -1 /\ r.endless = TRUE /\ Method = "Run" BY <3>1, <3>5, <4>1
      <4>3. WantedTo = n BY <1>2, <3>1, <3>5 DEF WantedTo
      <4>4. Limit = n BY <1>2, <4>2, <4>3 DEF Limit
      <4> QED BY <4>2, <4>4
    <3>6. CASE e = 0
      <4>1. PICK t : t = IF s = 0 THEN n ELSE IF s < n THEN s ELSE n OBVIOUS
      <4>2. r = [from |-> 0, to |-> t, endless |-> FALSE]
        BY <3>2, <3>3, <3>4, <3>6, <4>1 DEF EventRange
      <4>3. r.to = t /\ r.endless = FALSE BY <4>2
      <4>4. WantedTo = IF s > 0 THEN s ELSE n BY <1>2, <1>3, <3>1, <3>6 DEF WantedTo
      <4>5. Method = "RunEventReco" => s <= n
        BY <1>2, <1>3, <3>1, <3>6 DEF Fitting, InputFits, RangeExists
      <4>6. Limit = IF Method = "Run" THEN IF WantedTo < n THEN WantedTo ELSE n ELSE WantedTo
        BY <1>2, <2>1 DEF Limit
      <4>7. Limit = t BY <2>1, <4>1, <4>4, <4>5, <4>6
      <4>8. t \in Nat /\ t <= n BY <4>1
      <4> QED BY <4>3, <4>7, <4>8
    <3>7. CASE e # 0 /\ e # -1
      <4>1. r = [from |-> s, to |-> e, endless |-> FALSE]
        BY <3>2, <3>3, <3>4, <3>7 DEF EventRange
      <4>2. r.to = e /\ r.endless = FALSE BY <4>1
      <4>3. WantedTo = e BY <3>1, <3>7 DEF WantedTo
      <4>6. Limit = IF Method = "Run" THEN IF e < n THEN e ELSE n ELSE e
        BY <1>2, <2>1, <4>3 DEF Limit
      <4> QED BY <3>7, <4>2, <4>6
    <3> QED BY <3>5, <3>6, <3>7
  <2>2. CASE Method \notin {"Run", "RunEventReco"}
    <3>1. r = [from |-> 0, to |-> Len(setup.entries), endless |-> FALSE] BY <1>4, <2>2 DEF Start
    <3>2. Len(setup.entries) \in Int BY <1>1, SetupsAssumption
    <3>3. Limit = Len(setup.entries) BY <2>2 DEF Limit
    <3> QED BY <2>2, <3>1, <3>2, <3>3
  <2> QED BY <2>1, <2>2
<1>6. Limit' = Limit /\ Method' = Method /\ Len(Chain)' = n BY <1>1, <1>2, InputStays
<1> QED BY <1>4, <1>5, <1>6 DEF RangeMatch

LEMMA FilesStart == ASSUME Fitting, ~IsMixed, Start PROVE EventsInv'
<1>1. /\ setup' = setup /\ pc = "ready" /\ pc' = "loop" /\ seen' = seen /\ tree' = tree
      /\ data' = data
  BY DEF Start, output, source
<1>2. Len(seen') = 0 BY <1>1 DEF Fitting, TimesInv
<1>3. TreeInv' /\ SeenWhole' BY <1>1, TreeStays, SeenWholeStays DEF Fitting, EventsInv, FilesInv
<1>4. Joined(data.friends, data.main) BY DEF Fitting, EventsInv, FilesInv
<1>5. Joined(data.friends, data.main)' BY <1>1, <1>4, PartsStay
<1>6. RangeMatch' BY RangeBegins
<1> QED BY <1>1, <1>2, <1>3, <1>5, <1>6, InputStays DEF EventsInv, FilesInv, CountInv

LEMMA FilesReadEvent == ASSUME Fitting, ~IsMixed, ReadEvent PROVE EventsInv'
<1>1. /\ setup' = setup /\ pc = "loop" /\ pc' = "event" /\ seen' = seen /\ tree' = tree
      /\ i' = i /\ range' = range /\ LoopOn /\ setup \in Setups
  BY DEF ReadEvent, output, Fitting, ParametersInv
<1>2. FriendsFit BY <1>1, FriendsMade DEF Fitting, InputFits
<1>3. TreeInv' /\ SeenWhole' BY <1>1, TreeStays, SeenWholeStays DEF Fitting, EventsInv, FilesInv
<1>4. PICK d : d = data /\ Joined(d.friends, d.main) BY DEF Fitting, EventsInv, FilesInv
<1>5. PICK e \in Nat : e = Asked BY <1>1, AskedIsNumber DEF Fitting, ParametersInv
<1>6. e = WantedEntry(Len(seen) + 1)
  BY <1>1, <1>5, AskedIsWanted DEF Fitting, TimesInv, LoopMatch
<1>7. PICK r : r = Entry(e, d) OBVIOUS
<1>8. Joined(r.friends, r.main) /\ IsEntry(r.main, e) BY <1>1, <1>2, <1>4, <1>7, FileEntry
<1>9. data' = r BY <1>4, <1>5, <1>7 DEF ReadEvent, FileRead
<1>10. Joined(data.friends, data.main)' BY <1>1, <1>8, <1>9, PartsStay
<1>11. IsEntry(data.main, WantedEntry(Len(seen) + 1))'
  <2>1. WantedEntry(Len(seen) + 1)' = e BY <1>1, <1>6, InputStays
  <2> QED BY <1>1, <1>8, <1>9, <2>1, PartsStay
<1>12. fCurrentTime' = fEventTime' BY DEF ReadEvent, SourceHeader, FileHeader, Header
<1>13. RangeMatch BY <1>1 DEF Fitting, EventsInv, FilesInv, CountInv
<1>14. RangeMatch' BY <1>1, <1>13, InputStays DEF RangeMatch
<1>15. i < Limit
  <2>1. PICK n \in Nat : n = Len(Chain) BY <1>1, SetupsAssumption DEF Chain
  <2>2. i \in Nat /\ range.to \in Int BY <1>13 DEF Fitting, ParametersInv, EntriesMatch, RangeMatch
  <2>3. Method = "Run" => i < n
    <3> SUFFICES ASSUME Method = "Run" PROVE i < n OBVIOUS
    <3>1. ~AtEnd /\ Asked = i BY DEF ReadEvent, Asked
    <3>2. ~(i >= n) BY <1>1, <2>1, <3>1 DEF AtEnd
    <3> QED BY <2>2, <3>2
  <2>4. Limit = IF Method = "Run" /\ (range.endless \/ n < range.to) THEN n ELSE range.to
    BY <1>13, <2>1 DEF RangeMatch
  <2>5. i < range.to \/ (range.endless /\ Method = "Run") BY <1>1 DEF LoopOn
  <2> QED BY <2>2, <2>3, <2>4, <2>5
<1>16. CountInv' BY <1>1, <1>14, <1>15, InputStays DEF CountInv
<1> QED BY <1>1, <1>3, <1>10, <1>11, <1>12, <1>16, InputStays DEF EventsInv, FilesInv

\* One event more is seen, and filled if the call fills.
LEMMA OneMore ==
    ASSUME ParametersInv, TreeInv, Execute
    PROVE LET n == Len(seen) IN
          /\ n \in Nat /\ DOMAIN seen = 1 .. n
          /\ Len(seen') = n + 1 /\ DOMAIN seen' = 1 .. n + 1
          /\ \A k \in 1 .. n : seen'[k] = seen[k]
          /\ seen'[n + 1] = Loaded
          /\ IF Fills
             THEN /\ Len(tree) = n /\ DOMAIN tree = 1 .. n
                  /\ Len(tree') = n + 1 /\ DOMAIN tree' = 1 .. n + 1
                  /\ \A k \in 1 .. n : tree'[k] = tree[k]
                  /\ tree'[n + 1] = [event |-> data.main, friends |-> data.friends,
                                     header |-> LoadedHeader]
             ELSE tree' = tree /\ DOMAIN tree = {}
          /\ TreeInv'
<1>1. PICK n \in Nat : n = Len(seen) /\ DOMAIN seen = 1 .. n BY SeenLength
<1>2. PICK new : new = Loaded OBVIOUS
<1>3. PICK more : more = [event |-> data.main, friends |-> data.friends, header |-> LoadedHeader]
  OBVIOUS
<1>4. /\ seen' = Append(seen, new) /\ setup' = setup
      /\ tree' = IF Fills THEN Append(tree, more) ELSE tree
  BY <1>2, <1>3 DEF Execute, Fills
<1>5. /\ Len(seen') = n + 1 /\ DOMAIN seen' = 1 .. n + 1
      /\ \A k \in 1 .. n : seen'[k] = seen[k]
      /\ seen'[n + 1] = new
  <2>1. PICK S : seen \in Seq(S) BY DEF ParametersInv, SeenMatch
  <2>2. seen \in Seq(S \cup {new}) BY <2>1
  <2> QED BY <1>1, <1>4, <2>2
<1>6. CASE Fills
  <2>1. IsSeq(tree) /\ Len(tree) = n /\ DOMAIN tree = 1 .. n BY <1>1, <1>6, IsSeqIs DEF TreeInv
  <2>2. tree' = Append(tree, more) BY <1>4, <1>6
  <2>3. /\ IsSeq(tree') /\ Len(tree') = n + 1 /\ DOMAIN tree' = 1 .. n + 1
        /\ \A k \in 1 .. n : tree'[k] = tree[k]
        /\ tree'[n + 1] = more
    BY <2>1, <2>2, AppendIs
  <2>4. TreeInv' BY <1>4, <1>5, <1>6, <2>3, InputStays DEF TreeInv
  <2> QED BY <1>1, <1>2, <1>3, <1>5, <1>6, <2>1, <2>3, <2>4
<1>7. CASE ~Fills
  <2>1. IsSeq(tree) /\ Len(tree) = 0 /\ tree' = tree BY <1>4, <1>7 DEF TreeInv
  <2>2. DOMAIN tree = {} BY <2>1, IsSeqIs
  <2>3. TreeInv' BY <1>4, <1>7, <2>1, InputStays DEF TreeInv
  <2> QED BY <1>1, <1>2, <1>5, <1>7, <2>1, <2>2, <2>3
<1> QED BY <1>6, <1>7

LEMMA FilesExecute == ASSUME Fitting, ~IsMixed, Execute PROVE EventsInv'
<1>1. /\ setup' = setup /\ pc = "event" /\ pc' = "loop" /\ i' = i + 1 /\ range' = range
      /\ data' = data /\ setup \in Setups /\ ParametersInv /\ TreeInv
  BY DEF Execute, source, Fitting, ParametersInv, EventsInv
<1>2. PICK n \in Nat : n = Len(seen) BY <1>1, SeenLength
<1>3. TreeInv' BY <1>1, OneMore
<1>4. Joined(data.friends, data.main) /\ IsEntry(data.main, WantedEntry(n + 1))
      /\ fCurrentTime = fEventTime
  BY <1>1, <1>2 DEF Fitting, EventsInv, FilesInv
<1>5. Joined(data.friends, data.main)' BY <1>1, <1>4, PartsStay
<1>6. CountInv'
  <2>1. RangeMatch /\ i < Limit /\ i \in Nat
    BY <1>1 DEF Fitting, EventsInv, FilesInv, CountInv, ParametersInv, EntriesMatch
  <2>2. RangeMatch' BY <1>1, <2>1, InputStays DEF RangeMatch
  <2>3. Limit \in Nat BY <1>1, WantedIs DEF Fitting, InputFits
  <2>4. i + 1 <= Limit BY <2>1, <2>3
  <2> QED BY <1>1, <2>2, <2>4, InputStays DEF CountInv
<1>7. SeenWhole'
  <2> SUFFICES ASSUME NEW k \in 1 .. n + 1 PROVE WholeEvent(k)'
    BY <1>1, <1>2, OneMore DEF SeenWhole
  <2>1. CASE k # n + 1
    <3>1. k \in 1 .. n BY <2>1
    <3>2. WholeEvent(k) BY <1>1, <1>2, <3>1, OneMore DEF Fitting, EventsInv, FilesInv, SeenWhole
    <3>3. seen'[k] = seen[k] /\ (Fills => tree'[k] = tree[k]) BY <1>1, <1>2, <3>1, OneMore
    <3>4. PICK s : s = seen[k] OBVIOUS
    <3>5. PICK w : w = WantedEntry(k) /\ w = WantedEntry(k)' BY <1>1, InputStays
    <3>6. IsEntry(s.event, w) /\ Joined(s.friends, s.event) BY <3>2, <3>4, <3>5 DEF WholeEvent
    <3>7. IsEntry(s.event, w)' /\ Joined(s.friends, s.event)' BY <1>1, <3>6, PartsStay
    <3> QED BY <1>1, <3>2, <3>3, <3>4, <3>5, <3>7, InputStays DEF WholeEvent
  <2>2. CASE k = n + 1
    <3>1. PICK s : s = Loaded OBVIOUS
    <3>2. s.event = data.main /\ s.friends = data.friends /\ s.time = fCurrentTime
      BY <3>1 DEF Loaded
    <3>3. seen'[k] = s BY <1>1, <1>2, <2>2, <3>1, OneMore
    <3>4. PICK w : w = WantedEntry(k) /\ w = WantedEntry(k)' BY <1>1, InputStays
    <3>5. IsEntry(s.event, w) /\ Joined(s.friends, s.event) BY <1>4, <2>2, <3>2, <3>4
    <3>6. IsEntry(s.event, w)' /\ Joined(s.friends, s.event)' BY <1>1, <3>5, PartsStay
    <3>7. LoadedHeader = Header(s.event.run, s.event.id, 0, s.time)
      BY <1>4, <3>2 DEF LoadedHeader, FileHeader
    <3>8. Fills => tree'[k] = [event |-> s.event, friends |-> s.friends,
                               header |-> Header(s.event.run, s.event.id, 0, s.time)]
      BY <1>1, <1>2, <2>2, <3>2, <3>7, OneMore
    <3> QED BY <1>1, <3>3, <3>4, <3>6, <3>8, InputStays DEF WholeEvent
  <2> QED BY <2>1, <2>2
<1> QED BY <1>1, <1>3, <1>5, <1>6, <1>7, InputStays DEF EventsInv, FilesInv

LEMMA FilesFinish == ASSUME Fitting, ~IsMixed, Finish PROVE EventsInv'
<1>1. /\ setup' = setup /\ pc = "loop" /\ pc' = "end" /\ seen' = seen /\ tree' = tree
      /\ gFRAIsInterrupted' = gFRAIsInterrupted /\ setup \in Setups /\ ParametersInv
  BY DEF Finish, output, Fitting, ParametersInv
<1>2. FriendsFit BY <1>1, FriendsMade DEF Fitting, InputFits
<1>3. TreeInv' /\ SeenWhole' BY <1>1, TreeStays, SeenWholeStays DEF Fitting, EventsInv, FilesInv
<1>4. Joined(data.friends, data.main)'
  <2>1. PICK d : d = data /\ Joined(d.friends, d.main) BY DEF Fitting, EventsInv, FilesInv
  <2>2. CASE LoopOn /\ ~Stopped
    <3>1. PICK e \in Nat : e = Asked BY <1>1, <2>2, AskedIsNumber DEF ParametersInv
    <3>2. PICK r : r = Entry(e, d) OBVIOUS
    <3>3. Joined(r.friends, r.main) BY <1>1, <1>2, <2>1, <3>2, FileEntry
    <3>4. data' = r BY <2>1, <2>2, <3>1, <3>2 DEF Finish, FileRead
    <3> QED BY <1>1, <3>3, <3>4, PartsStay
  <2>3. CASE ~(LoopOn /\ ~Stopped)
    <3>1. data' = data BY <2>3 DEF Finish, source
    <3> QED BY <1>1, <2>1, <3>1, PartsStay
  <2> QED BY <2>2, <2>3
<1>5. ASSUME ~gFRAIsInterrupted PROVE Len(seen) = WantedEvents
  <2>1. PICK n \in Nat : n = Len(Chain) BY <1>1, SetupsAssumption DEF Chain
  <2>2. RangeMatch /\ (Len(seen) = 0 \/ i <= Limit)
    BY <1>1 DEF Fitting, EventsInv, FilesInv, CountInv
  <2>3. PICK a \in Nat : a = LoopFrom BY <1>1, WantedIs DEF Fitting, InputFits
  <2>4. PICK m \in Nat : m = Limit /\ WantedEvents = IF a < m THEN m - a ELSE 0
    BY <1>1, <2>3, WantedIs DEF Fitting, InputFits
  <2>5. PICK k \in Nat : k = Len(seen) BY <1>1, SeenLength
  <2>6. i = a + k BY <1>1, <2>3, <2>5 DEF Fitting, TimesInv, LoopMatch
  <2>7. PICK to \in Int : to = range.to /\ m = IF Method = "Run" /\ (range.endless \/ n < to)
                                                THEN n ELSE to
    BY <2>1, <2>2, <2>4 DEF RangeMatch
  <2>8. i >= m
    <3>1. ~LoopOn \/ (AtEnd /\ Method = "Run") BY <1>5 DEF Finish, Stopped
    <3>2. CASE ~LoopOn
      <4>1. ~(i < to) /\ ~(range.endless /\ Method = "Run") BY <2>7, <3>2 DEF LoopOn
      <4> QED BY <2>6, <2>7, <4>1
    <3>3. CASE AtEnd /\ Method = "Run"
      <4>1. i >= n BY <2>1, <3>3 DEF AtEnd, Asked
      <4> QED BY <2>6, <2>7, <3>3, <4>1
    <3> QED BY <3>1, <3>2, <3>3
  <2> QED BY <2>2, <2>4, <2>5, <2>6, <2>8
<1>6. CountInv'
  <2>1. WantedEvents' = WantedEvents
    BY <1>1, SetupStays DEF WantedEvents, WantedFrom, WantedTo
  <2> QED BY <1>1, <1>5, <2>1 DEF CountInv
<1> QED BY <1>1, <1>3, <1>4, <1>6, InputStays DEF EventsInv, FilesInv

\* An interrupt, which changes what the end of the loop says, or nothing.
LEMMA EventsStay ==
    ASSUME Fitting, setup' = setup, pc' = pc, seen' = seen, tree' = tree, i' = i, range' = range,
           source' = source, header' = header,
           gFRAIsInterrupted' = gFRAIsInterrupted \/ pc # "end"
    PROVE EventsInv'
<1>1. /\ data' = data /\ outHeader' = outHeader /\ fCurrentEntry' = fCurrentEntry
      /\ fEventTime' = fEventTime /\ fCurrentTime' = fCurrentTime
  BY DEF source, header, times
<1>2. TreeInv' BY TreeStays DEF Fitting, EventsInv
<1>3. CASE ~IsMixed
  <2>1. FilesInv BY <1>3 DEF Fitting, EventsInv
  <2>2. SeenWhole' BY <2>1, SeenWholeStays DEF FilesInv
  <2>3. Joined(data.friends, data.main)' BY <1>1, <2>1, PartsStay DEF FilesInv
  <2>4. pc = "event" => IsEntry(data.main, WantedEntry(Len(seen) + 1))'
    <3>1. PICK e : e = WantedEntry(Len(seen) + 1) OBVIOUS
    <3>2. WantedEntry(Len(seen) + 1)' = e BY <3>1, InputStays
    <3>3. pc = "event" => IsEntry(data.main, e) BY <2>1, <3>1 DEF FilesInv
    <3> QED BY <1>1, <3>2, <3>3, PartsStay
  <2>5. CountInv'
    <3>1. WantedEvents' = WantedEvents BY SetupStays DEF WantedEvents, WantedFrom, WantedTo
    <3>2. RangeMatch => RangeMatch' BY InputStays DEF RangeMatch
    <3> QED BY <2>1, <3>1, <3>2, InputStays DEF FilesInv, CountInv
  <2> QED BY <1>1, <1>2, <1>3, <2>1, <2>2, <2>3, <2>4, <2>5, InputStays DEF EventsInv, FilesInv
<1>4. CASE IsMixed
  <2>1. MixedInv BY <1>4 DEF Fitting, EventsInv
  <2>2. \A k, c : TakenBefore(k, c)' = TakenBefore(k, c) BY DEF TakenBefore
  <2>3. \A h, event, k : Named(h, event, k)' = Named(h, event, k) BY <2>2, InputStays DEF Named
  <2>4. MixedLimit' = MixedLimit
    BY InputStays DEF MixedLimit, CheckMaxEventNo, SignalMax, Ratio, Signal
  <2>5. MixedInv' BY <1>1, <2>1, <2>2, <2>3, <2>4, InputStays DEF MixedInv
  <2> QED BY <1>2, <1>4, <2>5, InputStays DEF EventsInv
<1> QED BY <1>3, <1>4

-----------------------------------------------------------------------------
(* The steps of a mixed run. *)

LEMMA ChosenIs ==
    ASSUME setup \in Setups, NEW u
    PROVE Chosen(u) \in Chains
<1>1. PICK n \in Nat : n = Len(setup.signals) /\ Signal = 1 .. n BY SignalsAssumption DEF Signal
<1>2. PICK hits : hits = {s \in Signal : u * Ratio(s).den <= Draws * Ratio(s).num} OBVIOUS
<1>3. Chosen(u) = IF hits = {} THEN 0 ELSE CHOOSE s \in hits : \A r \in hits : s <= r
  BY <1>2 DEF Chosen
<1>4. hits \subseteq 1 .. n BY <1>1, <1>2
<1>5. CASE hits = {} BY <1>1, <1>3, <1>5 DEF Chains
<1>6. CASE hits # {}
  <2>1. hits \in SUBSET Nat BY <1>4
  <2>2. \E s \in hits : \A r \in hits : s <= r BY <1>6, <2>1, LeastNat
  <2>3. Chosen(u) \in hits BY <1>3, <1>6, <2>2
  <2>4. Chosen(u) \in 1 .. n BY <1>4, <2>3
  <2>5. 1 .. n \subseteq 0 .. n OBVIOUS
  <2> QED BY <1>1, <2>4, <2>5, Zenon DEF Chains
<1> QED BY <1>5, <1>6

\* What is filled does not change, and the calls keep their range.
LEMMA MixedStays ==
    ASSUME setup' = setup, tree' = tree
    PROVE /\ \A k, c : TakenBefore(k, c)' = TakenBefore(k, c)
          /\ \A h, event, k : Named(h, event, k)' = Named(h, event, k)
          /\ MixedLimit' = MixedLimit
<1>1. \A k, c : TakenBefore(k, c)' = TakenBefore(k, c) BY DEF TakenBefore
<1>2. \A h, event, k : Named(h, event, k)' = Named(h, event, k) BY <1>1, InputStays DEF Named
<1>3. MixedLimit' = MixedLimit
  BY InputStays DEF MixedLimit, CheckMaxEventNo, SignalMax, Ratio, Signal
<1> QED BY <1>1, <1>2, <1>3

LEMMA MixedRunInit == ASSUME Fitting, IsMixed, RunInit PROVE EventsInv'
<1>1. /\ setup' = setup /\ pc = "init" /\ pc' = "ready" /\ seen' = seen /\ tree' = tree
      /\ fCurrentEntry' = fCurrentEntry
  BY DEF RunInit, output
<1>2. TreeInv' BY <1>1, TreeStays DEF Fitting, EventsInv
<1>3. MixedInv BY DEF Fitting, EventsInv
<1>4. MixedInv' BY <1>1, <1>3, MixedStays, InputStays DEF MixedInv
<1> QED BY <1>1, <1>2, <1>4, InputStays DEF EventsInv

LEMMA MixedStart == ASSUME Fitting, IsMixed, Start PROVE EventsInv'
<1>1. /\ setup' = setup /\ pc = "ready" /\ pc' = "loop" /\ seen' = seen /\ tree' = tree
      /\ fCurrentEntry' = fCurrentEntry /\ setup \in Setups
  BY DEF Start, output, source, Fitting, ParametersInv
<1>2. TreeInv' BY <1>1, TreeStays DEF Fitting, EventsInv
<1>3. MixedInv BY DEF Fitting, EventsInv
<1>4. ASSUME Method = "Run"
      PROVE (~range.endless /\ range.to \in Int /\ range.to <= MixedLimit /\ Len(seen) <= i)'
  <2>1. PICK e \in Nat : e = setup.end BY DEF Fitting, InputFits, RangeExists
  <2>2. PICK s \in Nat : s = setup.start BY <1>1, SetupsAssumption
  <2>3. PICK max \in Nat : max = CheckMaxEventNo(e) BY <1>1, MixedMaxIs
  <2>4. PICK r : r = range' OBVIOUS
  <2>5. r = EventRange(s, e) BY <1>4, <2>1, <2>2, <2>4 DEF Start
  <2>6. max # -1 OBVIOUS
  <2>7. PICK limit \in Nat : limit = MixedLimit /\ limit = IF e = 0 THEN max ELSE e
    BY <2>1, <2>3 DEF MixedLimit
  <2>8. ~r.endless /\ r.to \in Int /\ r.to <= limit /\ r.from \in Nat
    <3>1. CASE e = 0
      <4>1. r = [from |-> 0, to |-> IF s = 0 THEN max ELSE IF s < max THEN s ELSE max,
                 endless |-> FALSE]
        BY <2>3, <2>5, <2>6, <3>1 DEF EventRange
      <4> QED BY <2>7, <3>1, <4>1
    <3>2. CASE e # 0
      <4>1. r = [from |-> s, to |-> IF e < max THEN e ELSE max, endless |-> FALSE]
        BY <2>3, <2>5, <2>6, <3>2 DEF EventRange
      <4> QED BY <2>7, <3>2, <4>1
    <3> QED BY <3>1, <3>2
  <2>9. Len(seen') = 0 /\ i' = r.from BY <1>1, <2>4 DEF Start, Fitting, TimesInv
  <2>10. MixedLimit' = limit BY <1>1, <2>7, MixedStays
  <2> QED BY <2>4, <2>8, <2>9, <2>10
<1>5. MixedInv' BY <1>1, <1>3, <1>4, MixedStays, InputStays DEF MixedInv
<1> QED BY <1>1, <1>2, <1>5, InputStays DEF EventsInv

LEMMA MixedReadEvent == ASSUME Fitting, IsMixed, ReadEvent PROVE EventsInv'
<1>1. /\ setup' = setup /\ pc = "loop" /\ pc' = "event" /\ seen' = seen /\ tree' = tree
      /\ i' = i /\ range' = range /\ LoopOn /\ setup \in Setups /\ MixedInv
  BY DEF ReadEvent, output, Fitting, ParametersInv, EventsInv
<1>2. TreeInv' BY <1>1, TreeStays DEF Fitting, EventsInv
<1>3. PICK c \in Chains :
        /\ data' = MixedEntry(c, fCurrentEntry[c], data)
        /\ fCurrentEntry' = Advance(c)
        /\ outHeader' = Header(outHeader.run, fCurrentEntry[c], c, fEventTime')
  BY <1>1, ChosenIs DEF ReadEvent, MixedRead
<1>4. PICK d : d = MixedEntry(c, fCurrentEntry[c], data) OBVIOUS
<1>5. /\ d = MixedEntry(c, fCurrentEntry[c], data) /\ data' = d
      /\ fCurrentEntry' = Advance(c)
      /\ outHeader' = Header(outHeader.run, fCurrentEntry[c], c, fEventTime')
  BY <1>3, <1>4
<1>6. PICK h : h = outHeader' OBVIOUS
<1>7. PICK e \in Nat : e = fCurrentEntry[c] BY <1>1 DEF MixedInv
<1>8. h.file = c /\ h.entry = e /\ h.time = fEventTime' BY <1>5, <1>6, <1>7 DEF Header
<1>9. fCurrentTime' = h.time BY <1>6 DEF ReadEvent, SourceHeader
<1>10. fCurrentEntry' \in [Chains -> Nat]
      /\ \A b \in Chains : fCurrentEntry'[b] = fCurrentEntry[b] + IF b = c THEN 1 ELSE 0
  BY <1>1, <1>5 DEF MixedInv, Advance
<1>11. Fills => Named(h, d.main, Len(tree) + 1)
  <2> SUFFICES ASSUME Fills PROVE Named(h, d.main, Len(tree) + 1) OBVIOUS
  <2>1. e = TakenBefore(Len(tree) + 1, c)
    <3>1. fCurrentEntry[c] = TakenBefore(Len(tree) + 1, c) + 0 BY <1>1 DEF MixedInv
    <3>2. PICK k : k = TakenBefore(Len(tree) + 1, c) OBVIOUS
    <3>3. k \in Nat
      <4>1. {j \in 1 .. Len(tree) + 1 - 1 : tree[j].header.file = c} \subseteq 1 .. Len(tree) + 1 - 1
        OBVIOUS
      <4>2. IsFiniteSet({j \in 1 .. Len(tree) + 1 - 1 : tree[j].header.file = c})
        <5>1. Len(tree) + 1 - 1 \in Int BY IsSeqIs DEF Fitting, EventsInv, TreeInv
        <5>2. IsFiniteSet(1 .. Len(tree) + 1 - 1) BY <5>1, FS_Interval
        <5> QED BY <4>1, <5>2, FS_Subset
      <4> QED BY <3>2, <4>2, FS_CardinalityType DEF TakenBefore
    <3> QED BY <1>7, <3>1, <3>2, <3>3
  <2>2. e < Len(EventsOf(c)) => d.main = EventsOf(c)[e + 1]
    BY <1>5, <1>7 DEF MixedEntry, EventsOf
  <2> QED BY <1>8, <2>1, <2>2 DEF Named
<1>12. \A b \in Chains : b = c <=> outHeader'.file = b BY <1>6, <1>8
<1>13. Fills => \A b \in Chains :
         fCurrentEntry'[b] = TakenBefore(Len(tree) + 1, b) + IF outHeader'.file = b THEN 1 ELSE 0
  <2> SUFFICES ASSUME Fills, NEW b \in Chains
               PROVE fCurrentEntry'[b] = TakenBefore(Len(tree) + 1, b)
                                           + IF outHeader'.file = b THEN 1 ELSE 0
    OBVIOUS
  <2>1. PICK k : k = TakenBefore(Len(tree) + 1, b) OBVIOUS
  <2>2. fCurrentEntry[b] = k + 0 BY <1>1, <2>1 DEF MixedInv
  <2>3. k \in Nat
    <3>1. PICK n \in Int : n = Len(tree) + 1 - 1 BY IsSeqIs DEF Fitting, EventsInv, TreeInv
    <3>2. IsFiniteSet(1 .. n) BY <3>1, FS_Interval
    <3>3. IsFiniteSet({j \in 1 .. n : tree[j].header.file = b}) BY <3>2, FS_Subset
    <3> QED BY <2>1, <3>1, <3>3, FS_CardinalityType DEF TakenBefore
  <2>4. fCurrentEntry[b] = k BY <2>2, <2>3
  <2> QED BY <1>10, <1>12, <2>1, <2>4
<1>14. Method = "Run" =>
         /\ ~range.endless /\ range.to \in Int /\ range.to <= MixedLimit /\ Len(seen) <= i
         /\ Len(tree) <= MixedLimit /\ i < range.to
  BY <1>1 DEF MixedInv, LoopOn
<1>15. \A k \in DOMAIN tree :
         Named(tree[k].header, tree[k].event, k) /\ tree[k].header.time = seen[k].time
  BY <1>1 DEF MixedInv
<1>16. \A k \in DOMAIN tree' :
         (Named(tree[k].header, tree[k].event, k) /\ tree[k].header.time = seen[k].time)'
  BY <1>1, <1>15, MixedStays
<1>17. Fills' => Named(outHeader, data.main, Len(tree) + 1)'
  <2>1. PICK k : k = Len(tree) + 1 /\ (Len(tree) + 1)' = k BY <1>1
  <2>2. PICK m : m = d.main /\ (data.main)' = m BY <1>5
  <2>3. Fills => Named(h, m, k) BY <1>11, <2>1, <2>2
  <2>4. Fills => Named(h, m, k)' BY <1>1, <2>3, MixedStays
  <2> QED BY <1>1, <1>6, <2>1, <2>2, <2>4, InputStays
<1>18. MixedInv'
  BY <1>1, <1>6, <1>9, <1>10, <1>13, <1>14, <1>16, <1>17, MixedStays, InputStays DEF MixedInv
<1> QED BY <1>1, <1>2, <1>18, InputStays DEF EventsInv

\* One event more is taken from its chain.
LEMMA TakenOneMore ==
    ASSUME NEW n \in Nat, \A k \in 1 .. n : tree'[k] = tree[k]
    PROVE /\ \A c : \A k \in 1 .. n + 1 : TakenBefore(k, c)' = TakenBefore(k, c)
          /\ \A c : TakenBefore(n + 2, c)' = TakenBefore(n + 1, c)
                                               + IF tree'[n + 1].header.file = c THEN 1 ELSE 0
<1>1. ASSUME NEW k \in 1 .. n + 1, NEW c PROVE TakenBefore(k, c)' = TakenBefore(k, c)
  <2>1. {j \in 1 .. k - 1 : tree'[j].header.file = c} = {j \in 1 .. k - 1 : tree[j].header.file = c}
    OBVIOUS
  <2> QED BY <2>1 DEF TakenBefore
<1>2. ASSUME NEW c
      PROVE TakenBefore(n + 2, c)' = TakenBefore(n + 1, c)
                                       + IF tree'[n + 1].header.file = c THEN 1 ELSE 0
  <2>1. PICK S : S = {j \in 1 .. n : tree[j].header.file = c} OBVIOUS
  <2>2. (n + 1) - 1 = n /\ (n + 2) - 1 = n + 1 OBVIOUS
  <2>3. TakenBefore(n + 1, c) = Cardinality(S) BY <2>1, <2>2 DEF TakenBefore
  <2>4. IsFiniteSet(S) /\ Cardinality(S) \in Nat
    <3>1. 1 \in Int /\ n \in Int OBVIOUS
    <3>2. IsFiniteSet(1 .. n) BY <3>1, FS_Interval
    <3>3. S \subseteq 1 .. n BY <2>1
    <3>4. IsFiniteSet(S) BY <3>2, <3>3, FS_Subset
    <3> QED BY <3>4, FS_CardinalityType
  <2>5. n + 1 \notin S BY <2>1
  <2>6. {j \in 1 .. n + 1 : tree'[j].header.file = c}
          = IF tree'[n + 1].header.file = c THEN S \cup {n + 1} ELSE S
    <3>1. \A j : j \in 1 .. n + 1 <=> j \in 1 .. n \/ j = n + 1 OBVIOUS
    <3> QED BY <2>1, <3>1
  <2>7. Cardinality(S \cup {n + 1}) = Cardinality(S) + 1 BY <2>4, <2>5, FS_AddElement
  <2>8. TakenBefore(n + 2, c)' = Cardinality({j \in 1 .. n + 1 : tree'[j].header.file = c})
    BY <2>2 DEF TakenBefore
  <2>9. CASE tree'[n + 1].header.file = c
    <3>1. TakenBefore(n + 2, c)' = Cardinality(S) + 1 BY <2>6, <2>7, <2>8, <2>9, Zenon
    <3>2. (IF tree'[n + 1].header.file = c THEN 1 ELSE 0) = 1 BY <2>9
    <3> QED BY <2>3, <3>1, <3>2, Zenon
  <2>10. CASE tree'[n + 1].header.file # c
    <3>1. TakenBefore(n + 2, c)' = Cardinality(S) BY <2>6, <2>8, <2>10, Zenon
    <3>2. (IF tree'[n + 1].header.file = c THEN 1 ELSE 0) = 0 BY <2>10
    <3>3. PICK k \in Nat : k = Cardinality(S) BY <2>4
    <3>4. k = k + 0 OBVIOUS
    <3> QED BY <2>3, <3>1, <3>2, <3>3, <3>4, Zenon
  <2> QED BY <2>9, <2>10
<1> QED BY <1>1, <1>2

LEMMA MixedExecute == ASSUME Fitting, IsMixed, Execute PROVE EventsInv'
<1>1. /\ setup' = setup /\ pc = "event" /\ pc' = "loop" /\ i' = i + 1 /\ range' = range
      /\ fCurrentEntry' = fCurrentEntry /\ ParametersInv /\ TreeInv /\ MixedInv
      /\ i \in Nat
  BY DEF Execute, source, Fitting, ParametersInv, EntriesMatch, EventsInv
<1>2. PICK n \in Nat : n = Len(seen) BY <1>1, SeenLength
<1>3. TreeInv' BY <1>1, OneMore
<1>4. CASE ~Fills
  <2>1. Method # "Run" BY <1>4 DEF Fills
  <2>2. DOMAIN tree' = {} BY <1>1, <1>4, OneMore
  <2>3. MixedInv' BY <1>1, <1>4, <2>1, <2>2, InputStays DEF MixedInv
  <2> QED BY <1>1, <1>3, <2>3, InputStays DEF EventsInv
<1>5. CASE Fills
  <2>1. /\ Len(tree) = n /\ Len(tree') = n + 1 /\ DOMAIN tree = 1 .. n /\ DOMAIN tree' = 1 .. n + 1
        /\ \A k \in 1 .. n : tree'[k] = tree[k] /\ seen'[k] = seen[k]
        /\ Len(seen') = n + 1
    BY <1>1, <1>2, <1>5, OneMore
  <2>2. PICK h : h = outHeader OBVIOUS
  <2>3. PICK m : m = data.main OBVIOUS
  <2>4. /\ tree'[n + 1].header = h /\ tree'[n + 1].event = m /\ seen'[n + 1].time = h.time
    <3>1. tree'[n + 1] = [event |-> data.main, friends |-> data.friends, header |-> LoadedHeader]
          /\ seen'[n + 1] = Loaded
      BY <1>1, <1>2, <1>5, OneMore
    <3>2. LoadedHeader = h BY <2>2 DEF LoadedHeader
    <3>3. Loaded.time = h.time BY <1>1, <2>2 DEF Loaded, MixedInv
    <3> QED BY <2>3, <3>1, <3>2, <3>3
  <2>5. /\ \A c : \A k \in 1 .. n + 1 : TakenBefore(k, c)' = TakenBefore(k, c)
        /\ \A c : TakenBefore(n + 2, c)' = TakenBefore(n + 1, c) + IF h.file = c THEN 1 ELSE 0
    BY <2>1, <2>4, TakenOneMore
  <2>6. \A g, event, k : k \in 1 .. n + 1 /\ Named(g, event, k) => Named(g, event, k)'
    BY <1>1, <2>5, InputStays DEF Named
  <2>7. ASSUME NEW k \in 1 .. n + 1
        PROVE Named(tree[k].header, tree[k].event, k)' /\ tree'[k].header.time = seen'[k].time
    <3>1. PICK g : g = tree'[k].header OBVIOUS
    <3>2. PICK event : event = tree'[k].event OBVIOUS
    <3>3. Named(g, event, k) /\ g.time = seen'[k].time
      <4>1. CASE k = n + 1
        <5>1. Named(h, m, n + 1) BY <1>1, <1>5, <2>1, <2>2, <2>3 DEF MixedInv
        <5> QED BY <2>4, <3>1, <3>2, <4>1, <5>1
      <4>2. CASE k # n + 1
        <5>1. k \in DOMAIN tree /\ tree'[k] = tree[k] /\ seen'[k] = seen[k] BY <2>1, <4>2
        <5> QED BY <1>1, <3>1, <3>2, <5>1 DEF MixedInv
      <4> QED BY <4>1, <4>2
    <3>4. Named(g, event, k)' BY <2>6, <3>3
    <3> QED BY <3>1, <3>2, <3>3, <3>4
  <2>8. ASSUME NEW c \in Chains
        PROVE fCurrentEntry'[c] = TakenBefore(n + 2, c)' + 0
    <3>1. fCurrentEntry[c] = TakenBefore(n + 1, c) + IF h.file = c THEN 1 ELSE 0
      BY <1>1, <1>5, <2>1, <2>2 DEF MixedInv
    <3>2. fCurrentEntry[c] \in Nat BY <1>1 DEF MixedInv
    <3> QED BY <1>1, <2>5, <3>1, <3>2
  <2>9. (Len(tree) + 1)' = n + 2 BY <2>1
  <2>10. ASSUME Method = "Run"
         PROVE /\ ~range.endless /\ range.to \in Int /\ range.to <= MixedLimit
               /\ n + 1 <= i + 1 /\ n + 1 <= MixedLimit
    <3>1. /\ ~range.endless /\ range.to \in Int /\ range.to <= MixedLimit /\ n <= i /\ i < range.to
      BY <1>1, <1>2, <2>10 DEF MixedInv
    <3>2. MixedLimit \in Nat
      <4>1. setup.end \in Nat BY DEF Fitting, InputFits, RangeExists
      <4> QED BY <4>1, MixedMaxIs DEF MixedLimit, Fitting, ParametersInv
    <3> QED BY <1>1, <3>1, <3>2
  <2>11. MixedLimit' = MixedLimit
    BY <1>1, InputStays DEF MixedLimit, CheckMaxEventNo, SignalMax, Ratio, Signal
  <2>12. \A c \in Chains : fCurrentEntry'[c] = TakenBefore(Len(tree) + 1, c)' + 0
    BY <2>8, <2>9
  <2>13. MixedInv'
    BY <1>1, <1>5, <2>1, <2>7, <2>10, <2>11, <2>12, InputStays DEF MixedInv
  <2> QED BY <1>1, <1>3, <2>13, InputStays DEF EventsInv
<1> QED BY <1>4, <1>5

LEMMA MixedFinish == ASSUME Fitting, IsMixed, Finish PROVE EventsInv'
<1>1. /\ setup' = setup /\ pc' = "end" /\ pc = "loop" /\ seen' = seen /\ tree' = tree
  BY DEF Finish, output
<1>2. fCurrentEntry' = fCurrentEntry BY DEF Finish, source, FileRead
<1>3. TreeInv' BY <1>1, TreeStays DEF Fitting, EventsInv
<1>4. MixedInv BY DEF Fitting, EventsInv
<1>5. MixedInv' BY <1>1, <1>2, <1>4, MixedStays, InputStays DEF MixedInv
<1> QED BY <1>1, <1>3, <1>5, InputStays DEF EventsInv

-----------------------------------------------------------------------------
(* The theorem. *)

LEMMA EventsFromInv == ASSUME Fitting PROVE EventsAsked
<1>1. TreeInv /\ setup \in Setups /\ ParametersInv BY DEF Fitting, EventsInv, ParametersInv
<1>2. PICK n \in Nat : n = Len(seen) /\ DOMAIN seen = 1 .. n BY <1>1, SeenLength
<1>3. IsSeq(tree) /\ DOMAIN tree = 1 .. (IF Fills THEN n ELSE 0)
  BY <1>1, <1>2, IsSeqIs DEF TreeInv
<1>4. CASE IsMixed
  <2>1. MixedInv BY <1>4 DEF Fitting, EventsInv
  <2>2. ASSUME NEW k \in DOMAIN tree
        PROVE LET h == tree[k].header
                  events == IF h.file = 0 THEN Chain ELSE setup.signals[h.file].events
              IN  /\ h.entry = Cardinality({j \in 1..(k - 1) : tree[j].header.file = h.file})
                  /\ h.entry < Len(events) => tree[k].event = events[h.entry + 1]
                  /\ h.time = seen[k].time
    BY <2>1, <2>2 DEF MixedInv, Named, TakenBefore, EventsOf
  <2>3. Method = "Run" => Len(tree) <= IF setup.end = 0 THEN CheckMaxEventNo(0) ELSE setup.end
    BY <2>1 DEF MixedInv, MixedLimit
  <2> QED BY <1>4, <2>2, <2>3 DEF EventsAsked, MixedRight
<1>5. CASE ~IsMixed
  <2>1. FilesInv /\ FriendsFit BY <1>1, <1>5, FriendsMade DEF Fitting, EventsInv, InputFits
  <2>2. ASSUME NEW k \in DOMAIN seen
        PROVE /\ WantedEntry(k) < Len(Chain) => seen[k].event = Chain[WantedEntry(k) + 1]
              /\ Whole(k)
    <3>1. WholeEvent(k) BY <2>1 DEF FilesInv, SeenWhole
    <3>2. k \in DOMAIN tree => Fills BY <1>3
    <3>3. Len(seen[k].friends) = Cardinality({f.layout : f \in ToSet(setup.friends)})
      BY <2>1, <3>1 DEF WholeEvent, Joined, FriendsFit
    <3>4. \A l \in DOMAIN seen[k].friends : seen[k].friends[l] = seen[k].event.id
      BY <3>1 DEF WholeEvent, Joined
    <3>5. Whole(k) BY <3>1, <3>2, <3>3, <3>4 DEF Whole, WholeEvent
    <3> QED BY <3>1, <3>5 DEF WholeEvent, IsEntry
  <2>3. pc = "end" /\ ~gFRAIsInterrupted => Len(seen) = WantedEvents
    BY <2>1 DEF FilesInv, CountInv
  <2> QED BY <1>5, <2>2, <2>3 DEF EventsAsked, FilesRight
<1> QED BY <1>4, <1>5

(***************************************************************************)
(* The loops of FairRunAna, FairFileSource and FairMixedSource: for all    *)
(* files, friends, signals, draws and interrupts the tasks work on the     *)
(* events that were asked for, each once and in order, with the data of    *)
(* all friends, and what is filled has the header of its event; a mixed    *)
(* run takes the entries of each chain in order and names where an event   *)
(* is from.  The input must fit: friend files of one layout were added one *)
(* after another with an event for each of the chain, and the range that   *)
(* is asked for exists.                                                    *)
(***************************************************************************)
THEOREM EventsAlwaysAsked == Spec /\ []InputFits => []EventsAsked
<1>1. ParametersInv /\ TimesInv /\ InputFits /\ EventsInv /\ [Next]_vars => EventsInv'
  <2> SUFFICES ASSUME Fitting, [Next]_vars PROVE EventsInv'
    BY DEF Fitting
  <2>1. CASE RunInit BY <2>1, FilesRunInit, MixedRunInit
  <2>2. CASE Start BY <2>2, FilesStart, MixedStart
  <2>3. CASE ReadEvent BY <2>3, FilesReadEvent, MixedReadEvent
  <2>4. CASE Execute BY <2>4, FilesExecute, MixedExecute
  <2>5. CASE Finish BY <2>5, FilesFinish, MixedFinish
  <2>6. CASE Interrupt
    <3>1. /\ setup' = setup /\ pc' = pc /\ seen' = seen /\ tree' = tree /\ i' = i
          /\ range' = range /\ source' = source /\ header' = header /\ pc # "end"
      BY <2>6 DEF Interrupt, output
    <3> QED BY <3>1, EventsStay
  <2>7. CASE UNCHANGED vars
    <3>1. /\ setup' = setup /\ pc' = pc /\ seen' = seen /\ tree' = tree /\ i' = i
          /\ range' = range /\ source' = source /\ header' = header
          /\ gFRAIsInterrupted' = gFRAIsInterrupted
      BY <2>7 DEF vars, output
    <3> QED BY <3>1, EventsStay
  <2> QED BY <2>1, <2>2, <2>3, <2>4, <2>5, <2>6, <2>7 DEF Next
<1>2. ParametersInv /\ TimesInv /\ InputFits /\ EventsInv => EventsAsked
  BY EventsFromInv DEF Fitting
<1>3. Init /\ InputFits => EventsInv BY EventsInit
<1>4. Spec => []TimesInv BY TimesAlways
<1> QED BY <1>1, <1>2, <1>3, <1>4, ParametersAlways, PTL DEF Spec
=============================================================================
