--------------------------- MODULE QueueRunnerProofs ---------------------------
(***************************************************************************)
(* Theorems of QueueRunner, for any number of uploads, concurrent calls    *)
(* and timers, any concurrency and any bounds.                             *)
(***************************************************************************)
EXTENDS QueueRunner, InductionLemmas, FiniteSetTheorems, TLAPS

-----------------------------------------------------------------------------
(* The n uploads created first                                             *)

Before(S, u) == {v \in S : v < u}

Rank(S, u) == Cardinality(Before(S, u))

(* An upload of S has fewer than all of S before it.                       *)
LEMMA RankRange ==
    ASSUME NEW S \in SUBSET Nat, IsFiniteSet(S), NEW u \in S
    PROVE  /\ IsFiniteSet(Before(S, u))
           /\ Rank(S, u) \in 0 .. Cardinality(S) - 1
<1>1. IsFiniteSet(S \ {u}) /\ Cardinality(S \ {u}) = Cardinality(S) - 1
  BY FS_RemoveElement
<1>2. Before(S, u) \in SUBSET (S \ {u})
  BY DEF Before
<1>3. IsFiniteSet(Before(S, u)) /\ Rank(S, u) <= Cardinality(S) - 1
  BY <1>1, <1>2, FS_Subset DEF Rank
<1>4. Rank(S, u) \in Nat /\ Cardinality(S) \in Nat
  BY <1>3, FS_CardinalityType DEF Rank
<1> QED BY <1>3, <1>4

(* The earlier of two uploads has fewer before it.                         *)
LEMMA RankMonotone ==
    ASSUME NEW S \in SUBSET Nat, IsFiniteSet(S), NEW u \in S, NEW w \in S, u < w
    PROVE  Rank(S, u) < Rank(S, w)
<1>1. IsFiniteSet(Before(S, u)) /\ IsFiniteSet(Before(S, w))
  BY RankRange
<1>2. u \notin Before(S, u) /\ Before(S, u) \cup {u} \in SUBSET Before(S, w)
  <2>1. ~(u < u) /\ \A v \in S : v < u => v < w
    OBVIOUS
  <2>2. u \notin Before(S, u) /\ u \in Before(S, w) /\ \A v \in Before(S, u) : v \in Before(S, w)
    BY <2>1 DEF Before
  <2> QED BY <2>2
<1>3. Cardinality(Before(S, u) \cup {u}) = Rank(S, u) + 1
  BY <1>1, <1>2, FS_AddElement DEF Rank
<1>4. Cardinality(Before(S, u) \cup {u}) <= Rank(S, w)
  BY <1>1, <1>2, FS_Subset DEF Rank
<1>5. Rank(S, u) \in Nat /\ Rank(S, w) \in Nat
  BY RankRange
<1> QED BY <1>3, <1>4, <1>5

(* The ranks of S are 0 .. |S| - 1, each taken once.                       *)
LEMMA RanksCount ==
    ASSUME NEW S \in SUBSET Nat, IsFiniteSet(S)
    PROVE  [u \in S |-> Rank(S, u)] \in Bijection(S, 0 .. Cardinality(S) - 1)
<1> DEFINE f == [u \in S |-> Rank(S, u)]
           R == 0 .. Cardinality(S) - 1
<1>1. Cardinality(S) \in Nat
  BY FS_CardinalityType
<1>2. f \in [S -> R]
  BY RankRange
<1>3. \A u, w \in S : u # w => f[u] # f[w]
  <2> SUFFICES ASSUME NEW u \in S, NEW w \in S, u < w
               PROVE  Rank(S, u) # Rank(S, w)
    OBVIOUS
  <2>1. Rank(S, u) < Rank(S, w)
    BY RankMonotone
  <2>2. Rank(S, u) \in Nat /\ Rank(S, w) \in Nat
    BY <1>1, RankRange
  <2> QED BY <2>1, <2>2
<1>4. f \in Injection(S, R)
  BY <1>2, <1>3 DEF Injection, IsInjective
<1>5. IsFiniteSet(R) /\ Cardinality(R) = Cardinality(S)
  <2>1. Cardinality(S) - 1 \in Int
    BY <1>1
  <2>2. IsFiniteSet(R) /\ Cardinality(R) = IF 0 > Cardinality(S) - 1 THEN 0
                                            ELSE Cardinality(S) - 1 - 0 + 1
    BY <2>1, FS_Interval
  <2> QED BY <1>1, <2>2
<1>6. f \in Surjection(S, R)
  BY <1>4, <1>5, FS_Injection
<1> QED BY <1>4, <1>6 DEF Bijection

(* First(S, n) has n uploads, or all there are.                            *)
LEMMA FirstSize ==
    ASSUME NEW S \in SUBSET Nat, IsFiniteSet(S), NEW n \in Nat
    PROVE  /\ First(S, n) \subseteq S
           /\ IsFiniteSet(First(S, n))
           /\ Cardinality(First(S, n)) <= n
           /\ Cardinality(First(S, n)) < n => First(S, n) = S
<1> DEFINE F == First(S, n)
           f == [u \in S |-> Rank(S, u)]
<1>1. F = {u \in S : Rank(S, u) < n}
  BY DEF First, Rank, Before
<1>2. F \in SUBSET S /\ IsFiniteSet(F) /\ Cardinality(F) \in Nat /\ Cardinality(S) \in Nat
  BY <1>1, FS_Subset, FS_CardinalityType
<1>3. CASE n > Cardinality(S)
  <2>1. \A u \in S : Rank(S, u) \in 0 .. Cardinality(S) - 1
    BY RankRange
  <2>2. \A u \in S : Rank(S, u) < n
    BY <1>2, <1>3, <2>1
  <2>3. F = S
    BY <1>1, <2>2
  <2> QED BY <1>2, <1>3, <2>3
<1>4. CASE n <= Cardinality(S)
  <2> DEFINE g == [u \in F |-> Rank(S, u)]
  <2>1. /\ f \in [S -> 0 .. Cardinality(S) - 1]
        /\ \A u, w \in S : f[u] = f[w] => u = w
        /\ \A k \in 0 .. Cardinality(S) - 1 : \E u \in S : f[u] = k
    BY RanksCount DEF Bijection, Injection, IsInjective, Surjection
  <2>2. g \in [F -> 0 .. n - 1]
    <3>1. \A u \in S : Rank(S, u) \in 0 .. Cardinality(S) - 1
      BY RankRange
    <3>2. \A u \in F : u \in S /\ Rank(S, u) < n
      BY <1>1
    <3>3. \A u \in F : Rank(S, u) \in 0 .. n - 1
      <4> HIDE DEF F
      <4> QED BY <1>2, <3>1, <3>2
    <3> QED BY <3>3
  <2>3. \A k \in 0 .. n - 1 : \E u \in F : g[u] = k
    <3> SUFFICES ASSUME NEW k \in 0 .. n - 1
                 PROVE  \E u \in F : g[u] = k
      OBVIOUS
    <3>1. PICK u \in S : f[u] = k
      BY <1>2, <1>4, <2>1
    <3> QED BY <1>1, <3>1
  <2>4. \A u, w \in F : g[u] = g[w] => u = w
    BY <1>2, <2>1
  <2>5. g \in Bijection(F, 0 .. n - 1)
    BY <2>2, <2>3, <2>4 DEF Bijection, Injection, IsInjective, Surjection
  <2>6. Cardinality(F) = Cardinality(0 .. n - 1)
    BY <1>2, <2>5, FS_Bijection DEF ExistsBijection
  <2>7. Cardinality(F) = n
    BY <2>6, FS_Interval
  <2> QED BY <1>2, <2>7
<1> QED BY <1>2, <1>3, <1>4

-----------------------------------------------------------------------------
(* What a step does to the calls of process()                              *)

(* A call of process() goes along these edges, and is where run() awaits   *)
(* between two of them.                                                    *)
CallGraph ==
    {<<"called", "isOnline">>, <<"called", "wake">>, <<"called", "idle">>,
     <<"isOnline", "loopOnline">>, <<"isOnline", "all">>, <<"isOnline", "unlock">>,
     <<"loopOnline", "fetch">>, <<"loopOnline", "race">>, <<"loopOnline", "loopOnline">>,
     <<"loopOnline", "all">>, <<"fetch", "fetched">>,
     <<"fetched", "fetch">>, <<"fetched", "race">>, <<"fetched", "loopOnline">>,
     <<"fetched", "all">>, <<"race", "loopOnline">>, <<"race", "all">>,
     <<"all", "unlock">>, <<"unlock", "recheck">>, <<"rejected", "idle">>,
     <<"recheck", "isOnline">>, <<"recheck", "wake">>, <<"recheck", "idle">>,
     <<"wake", "query">>, <<"wake", "idle">>, <<"query", "idle">>}

Moves(c) == \E pc \in Phase : <<calls[c].pc, pc>> \in CallGraph /\ Goto(c, pc)

Called(c) ==
    /\ calls[c].pc = "idle"
    /\ \E wakes \in BOOLEAN : calls' = [calls EXCEPT ![c] = [pc |-> "called", wakes |-> wakes]]

(* Resting, filling and entering the pass move the call along the graph.   *)
LEMMA RestMoves ==
    ASSUME NEW c \in Callers, NEW inFlight, calls[c].pc \in {"loopOnline", "fetched"},
           Rest(c, inFlight)
    PROVE  /\ Moves(c)
           /\ \E pc \in {"race", "loopOnline", "all"} : Goto(c, pc)
BY DEF Rest, Lap, Moves, CallGraph, Phase, Holding, Looping

(* Filling the free slots asks for rows, or rests.                         *)
LEMMA FillMoves ==
    ASSUME NEW c \in Callers, NEW inFlight, calls[c].pc \in {"loopOnline", "fetched"},
           Fill(c, inFlight)
    PROVE  Moves(c)
<1>1. Goto(c, "fetch") \/ Rest(c, inFlight)
  BY DEF Fill
<1> QED BY <1>1, RestMoves DEF Moves, CallGraph, Phase, Holding, Looping

(* Finding the lock free or taken moves the call along the graph.          *)
LEMMA EnterMoves ==
    ASSUME NEW c \in Callers, calls[c].pc \in {"called", "recheck"}, EnterPass(c) \/ Return(c)
    PROVE  Moves(c)
BY DEF EnterPass, Return, Moves, CallGraph, Phase, Holding, Looping

(* Every step of a call is along the graph.                                *)
LEMMA CallStepMoves ==
    ASSUME NEW c \in Callers, CallStep(c)
    PROVE  Moves(c)
<1>1. CASE Enter(c) \/ Recheck(c)
  BY <1>1, EnterMoves DEF Enter, Recheck
<1>2. CASE Unlock(c) \/ Reject(c) \/ EndPass(c) \/ GetPending(c) \/ ArmTimer(c)
  BY <1>2 DEF Unlock, Reject, EndPass, GetPending, ArmTimer, Moves, CallGraph, Phase, Holding,
              Looping
<1>3. CASE BeginPass(c) \/ RaceWon(c)
  BY <1>3 DEF BeginPass, RaceWon, Lap, Moves, CallGraph, Phase, Holding, Looping
<1>4. CASE CheckOnline(c)
  <2>1. Fill(c, InFlight) \/ Goto(c, "all")
    BY <1>4 DEF CheckOnline
  <2> QED BY <1>4, <2>1, FillMoves DEF CheckOnline, Moves, CallGraph, Phase, Holding, Looping
<1>5. CASE Launch(c)
  <2>1. (\E inFlight : Fill(c, inFlight)) \/ Rest(c, InFlight)
    BY <1>5 DEF Launch
  <2> QED BY <1>5, <2>1, FillMoves, RestMoves DEF Launch
<1>6. CASE ScheduleWake(c)
  BY <1>6 DEF ScheduleWake, Moves, CallGraph, Phase, Holding, Looping
<1> QED BY <1>1, <1>2, <1>3, <1>4, <1>5, <1>6 DEF CallStep

(* A step leaves the calls alone, starts one, moves one along the graph or *)
(* is a fault that leaves the graph.                                       *)
LEMMA CallsMove ==
    ASSUME [Next]_vars, started \in BOOLEAN
    PROVE  \/ UNCHANGED calls
           \/ \E c \in Callers : Called(c)
           \/ \E c \in Callers : Moves(c) /\ CallStep(c)
           \/ \E c \in Callers : Goto(c, "rejected") /\ PassFault(c)
<1>0. \A wakes \in BOOLEAN : Call(wakes) => \E c \in Callers : Called(c)
  BY DEF Call, Called
<1>1. CASE \E c \in Callers : CallStep(c) \/ PassFault(c)
  BY <1>1, CallStepMoves DEF PassFault
<1>2. CASE \E g \in Generations, u \in Uploads : AttemptStep(g, u) \/ AttemptThrows(g, u)
  BY <1>2 DEF AttemptStep, Claim, ReadStatus, Finish, Interrupt, Release, Settle, AttemptThrows,
              ClaimFault, ReadFault, AttemptFault, ReleaseFault
<1>3. CASE Start \/ Process \/ \E h \in Handles : Wake(h)
  BY <1>0, <1>3 DEF Start, Process, Wake
<1>4. CASE \E u \in Uploads : Enqueue(u) \/ Park(u) \/ Unpark(u)
  BY <1>0, <1>4 DEF Enqueue, Park, Unpark, TriggerIfStarted
<1>5. CASE StopBegin \/ StopEnd \/ Tick \/ GoOffline \/ GoOnline
  BY <1>0, <1>5 DEF StopBegin, StopEnd, Tick, GoOffline, GoOnline, TriggerIfStarted
<1>6. CASE UNCHANGED vars
  BY <1>6 DEF vars
<1> QED BY <1>1, <1>2, <1>3, <1>4, <1>5, <1>6 DEF Next

-----------------------------------------------------------------------------
(* Type correctness                                                        *)

(* The calls keep their type along the graph.                              *)
LEMMA CallsType ==
    ASSUME TypeOK, [Next]_vars
    PROVE  calls' \in [Callers -> [pc: Phase, wakes: BOOLEAN]]
<1>1. calls \in [Callers -> [pc: Phase, wakes: BOOLEAN]]
  BY DEF TypeOK
<1>2. ASSUME NEW c \in Callers, Called(c)
      PROVE  calls' \in [Callers -> [pc: Phase, wakes: BOOLEAN]]
  BY <1>1, <1>2 DEF Called, Phase
<1>3. ASSUME NEW c \in Callers, Moves(c)
      PROVE  calls' \in [Callers -> [pc: Phase, wakes: BOOLEAN]]
  <2>1. PICK pc \in Phase : Goto(c, pc)
    BY <1>3 DEF Moves
  <2>2. [calls[c] EXCEPT !.pc = pc] \in [pc: Phase, wakes: BOOLEAN]
    BY <1>1
  <2> QED BY <1>1, <2>1, <2>2 DEF Goto
<1>4. ASSUME NEW c \in Callers, Goto(c, "rejected")
      PROVE  calls' \in [Callers -> [pc: Phase, wakes: BOOLEAN]]
  BY <1>1, <1>4 DEF Goto, Phase, Holding
<1> QED BY <1>1, <1>2, <1>3, <1>4, CallsMove DEF TypeOK

(* Sets of uploads are finite, and so is every batch.                      *)
LEMMA UploadSets ==
    ASSUME NEW S \in SUBSET Uploads
    PROVE  IsFiniteSet(S) /\ Cardinality(S) \in Nat
<1>1. IsFiniteSet(S)
  BY RunnerAssumption, FS_Subset DEF RunnerAssumption
<1> QED BY <1>1, FS_CardinalityType

(* Asking for more rows, or resting, keeps the pass typed.                 *)
LEMMA FillType ==
    ASSUME TypeOK, NEW c \in Callers, NEW inFlight \in SUBSET Uploads, Fill(c, inFlight)
    PROVE  /\ limit' \in Nat /\ overtaken' \in BOOLEAN
           /\ raced' \in SUBSET Uploads /\ rerun' \in BOOLEAN
<1>1. /\ Concurrency \in Nat /\ stalled \in SUBSET Uploads
      /\ rerun \in BOOLEAN /\ overtaken \in BOOLEAN /\ raced \in SUBSET Uploads
  BY RunnerAssumption DEF RunnerAssumption, TypeOK
<1>2. Cardinality(inFlight) \in Nat /\ Cardinality(stalled) \in Nat
  BY <1>1, UploadSets
<1> DEFINE remaining == Concurrency - Cardinality(inFlight)
<1>3. CASE remaining > 0
  <2>1. limit' = remaining + Cardinality(stalled) /\ overtaken' = FALSE /\ UNCHANGED <<rerun, raced>>
    BY <1>3 DEF Fill
  <2>2. remaining + Cardinality(stalled) \in Nat
    BY <1>1, <1>2, <1>3
  <2> QED BY <1>1, <2>1, <2>2
<1>4. CASE ~(remaining > 0)
  <2>1. Rest(c, inFlight) /\ limit' = 0 /\ UNCHANGED overtaken
    BY <1>4 DEF Fill
  <2>2. raced' \in SUBSET Uploads /\ rerun' \in BOOLEAN
    BY <1>1, <2>1 DEF Rest
  <2> QED BY <1>1, <2>1, <2>2
<1> QED BY <1>3, <1>4

(* No step of a call breaks a type.                                        *)
LEMMA CallStepType ==
    ASSUME TypeOK, BatchesCounted, NEW c \in Callers, CallStep(c) \/ PassFault(c)
    PROVE  TypeOK'
<1>0. /\ calls' \in [Callers -> [pc: Phase, wakes: BOOLEAN]]
      /\ InFlight \in SUBSET Uploads /\ Concurrency \in Nat
  BY CallsType, RunnerAssumption DEF Next, InFlight, RunnerAssumption
<1>1. CASE Enter(c) \/ Recheck(c) \/ Unlock(c) \/ Reject(c)
  <2>1. /\ running' \in BOOLEAN /\ rerun' \in BOOLEAN
        /\ UNCHANGED <<table, flags, gen, att, pass, wake, used>>
    BY <1>1 DEF Enter, Recheck, Unlock, Reject, EnterPass, lock, TypeOK
  <2> QED BY <1>0, <2>1 DEF TypeOK, WakeType, table, flags, pass, wake
<1>2. CASE BeginPass(c) \/ RaceWon(c) \/ EndPass(c)
  <2>1. /\ rerun' \in BOOLEAN /\ raced' \in SUBSET Uploads
        /\ stalled' \in SUBSET Uploads /\ taken' \in SUBSET Uploads
        /\ UNCHANGED <<table, flags, running, gen, att, limit, fetched, overtaken, wake, used>>
    BY <1>2 DEF BeginPass, RaceWon, EndPass, pass, lock, TypeOK
  <2> QED BY <1>0, <2>1 DEF TypeOK, WakeType, table, flags, wake
<1>3. CASE CheckOnline(c)
  <2>1. /\ limit' \in Nat /\ overtaken' \in BOOLEAN
        /\ raced' \in SUBSET Uploads /\ rerun' \in BOOLEAN
    <3>1. CASE online
      BY <1>0, <1>3, <3>1, FillType DEF CheckOnline
    <3>2. CASE ~online
      BY <1>3, <3>2 DEF CheckOnline, TypeOK
    <3> QED BY <3>1, <3>2
  <2> QED BY <1>0, <1>3, <2>1 DEF CheckOnline, TypeOK, WakeType, table, flags, wake
<1>4. CASE GetPending(c)
  <2>1. fetched' \in SUBSET Uploads
    BY <1>4 DEF GetPending, First
  <2> QED BY <1>0, <1>4, <2>1 DEF GetPending, TypeOK, WakeType, table, flags, lock, wake
<1>5. CASE Launch(c)
  <2> DEFINE next == Chosen(fetched)
  <2>1. next \in SUBSET Uploads
    BY DEF Chosen, First, TypeOK
  <2>2. /\ limit' \in Nat /\ overtaken' \in BOOLEAN
        /\ raced' \in SUBSET Uploads /\ rerun' \in BOOLEAN
        /\ att' \in [Generations -> [Uploads -> AttemptPhase]]
    <3>1. CASE next = {}
      BY <1>0, <1>5, <3>1 DEF Launch, Rest, TypeOK
    <3>2. CASE next # {}
      <4>1. Fill(c, InFlight \cup next)
        BY <1>5, <3>2 DEF Launch
      <4>2. att' \in [Generations -> [Uploads -> AttemptPhase]]
        BY <1>5, <3>2 DEF Launch, TypeOK, AttemptPhase
      <4> QED BY <1>0, <2>1, <4>1, <4>2, FillType
    <3> QED BY <3>1, <3>2
  <2> QED BY <1>0, <1>5, <2>2 DEF Launch, TypeOK, WakeType, table, flags, wake
<1>6. CASE ScheduleWake(c)
  <2>1. WakeType'
    BY <1>6 DEF ScheduleWake, CancelTimer, TypeOK, WakeType
  <2> QED BY <1>0, <1>6, <2>1 DEF ScheduleWake, TypeOK, table, flags, lock, pass
<1>7. CASE ArmTimer(c)
  <2>1. WakeType'
    <3>1. CASE UNCHANGED wake
      BY <3>1 DEF wake, TypeOK, WakeType
    <3>2. CASE ~UNCHANGED wake
      <4>1. PICK u \in Uploads : rows[u].at # NULL /\ SetTimer(rows[u].at)
        BY <1>7, <3>2 DEF ArmTimer
      <4>2. rows[u].at \in Nat
        BY <4>1 DEF TypeOK, Row
      <4> QED BY <4>1, <4>2 DEF SetTimer, TypeOK, WakeType
    <3> QED BY <3>1, <3>2
  <2> QED BY <1>0, <1>7, <2>1 DEF ArmTimer, TypeOK, table, flags, lock, pass
<1>8. CASE PassFault(c)
  <2>1. gen + 1 \in Generations
    <3>1. /\ gen \in Nat /\ MaxFaults \in Nat /\ used.faults \in Nat
          /\ used.faults < MaxFaults /\ gen <= used.faults
      BY <1>8, RunnerAssumption DEF PassFault, BatchesCounted, TypeOK, Generations, RunnerAssumption
    <3> QED BY <3>1 DEF Generations
  <2>2. [used EXCEPT !["faults"] = @ + 1] \in [calls: Nat, outages: Nat, retries: Nat, faults: Nat]
    BY DEF TypeOK
  <2> QED BY <1>0, <1>8, <2>1, <2>2 DEF PassFault, Spend, TypeOK, WakeType, table, flags, lock, wake
<1> QED BY <1>1, <1>2, <1>3, <1>4, <1>5, <1>6, <1>7, <1>8 DEF CallStep

(* No step of an attempt breaks a type.                                    *)
LEMMA AttemptStepType ==
    ASSUME TypeOK, NEW g \in Generations, NEW u \in Uploads, AttemptStep(g, u) \/ AttemptThrows(g, u)
    PROVE  TypeOK'
<1>0. /\ \A pc \in AttemptPhase : [att EXCEPT ![g][u] = pc] \in [Generations -> [Uploads -> AttemptPhase]]
      /\ \A row \in Row : [rows EXCEPT ![u] = row] \in [Uploads -> Row]
      /\ [used EXCEPT !["faults"] = @ + 1] \in [calls: Nat, outages: Nat, retries: Nat, faults: Nat]
      /\ now \in Nat
  BY DEF TypeOK
<1>1. \A pc \in AttemptPhase : AttemptGoto(g, u, pc) => att' \in [Generations -> [Uploads -> AttemptPhase]]
  BY <1>0 DEF AttemptGoto
<1>2. Reports(g, u) => att' \in [Generations -> [Uploads -> AttemptPhase]]
  BY <1>1 DEF Reports, AttemptPhase
<1>3. Mark(g, u) => rows' \in [Uploads -> Row] /\ taken' \in SUBSET Uploads
  <2>1. [status |-> "uploading", at |-> NULL, by |-> g] \in Row
    BY DEF Row
  <2>2. Mark(g, u) => rows' \in [Uploads -> Row]
    BY <1>0, <2>1 DEF Mark
  <2>3. Mark(g, u) => taken' \in {taken, taken \cup {u}}
    BY DEF Mark
  <2> QED BY <2>2, <2>3 DEF TypeOK
<1>4. CASE Claim(g, u) \/ ClaimFault(g, u)
  <2>1. rows' \in [Uploads -> Row] /\ taken' \in SUBSET Uploads
    <3>1. Mark(g, u) \/ UNCHANGED <<rows, taken>>
      BY <1>4 DEF Claim, ClaimFault
    <3> QED BY <1>3, <3>1 DEF TypeOK
  <2>2. att' \in [Generations -> [Uploads -> AttemptPhase]]
    BY <1>1, <1>4 DEF Claim, ClaimFault, AttemptPhase
  <2>3. used' \in [calls: Nat, outages: Nat, retries: Nat, faults: Nat]
    BY <1>0, <1>4 DEF Claim, ClaimFault, Spend, TypeOK
  <2> QED BY <1>4, <2>1, <2>2, <2>3 DEF Claim, ClaimFault, TypeOK, WakeType, flags, lock, wake
<1>5. CASE Finish(g, u) \/ Release(g, u)
  <2>1. /\ Parked \in Row /\ PendingAt(NULL) \in Row
        /\ \A d \in RetryDelays : PendingAt(now + d) \in Row
    BY <1>0, RunnerAssumption DEF Parked, PendingAt, Row, RunnerAssumption
  <2>2. \A row \in Row, pc \in {"pending", "other"} :
           Ends(g, u, row, pc) => /\ rows' \in [Uploads -> Row]
                                  /\ att' \in [Generations -> [Uploads -> AttemptPhase]]
    BY <1>0, <1>1 DEF Ends, AttemptPhase
  <2>3. rows' \in [Uploads -> Row] /\ att' \in [Generations -> [Uploads -> AttemptPhase]]
    <3>1. \/ Reports(g, u) /\ UNCHANGED rows
          \/ Ends(g, u, Parked, "other") \/ Ends(g, u, PendingAt(NULL), "pending")
          \/ \E d \in RetryDelays : Ends(g, u, PendingAt(now + d), "pending")
      BY <1>5 DEF Finish, Release
    <3> QED BY <1>2, <2>1, <2>2, <3>1 DEF TypeOK
  <2>4. used' \in [calls: Nat, outages: Nat, retries: Nat, faults: Nat]
    BY <1>5 DEF Finish, Release, Spend, TypeOK
  <2> QED BY <1>5, <2>3, <2>4 DEF Finish, Release, TypeOK, WakeType, flags, lock, pass, wake
<1>6. CASE ReadStatus(g, u) \/ Interrupt(g, u)
  <2>1. att' \in [Generations -> [Uploads -> AttemptPhase]]
    BY <1>1, <1>2, <1>6 DEF ReadStatus, Interrupt, AttemptPhase
  <2> QED BY <1>6, <2>1 DEF ReadStatus, Interrupt, TypeOK, WakeType, table, flags, lock, pass, wake
<1>7. CASE Settle(g, u)
  <2>1. /\ att' \in [Generations -> [Uploads -> AttemptPhase]]
        /\ stalled' \in SUBSET Uploads /\ overtaken' \in BOOLEAN
        /\ stop' \in [on: BOOLEAN, waits: SUBSET (Generations \X Uploads)]
    BY <1>1, <1>7 DEF Settle, AttemptPhase, TypeOK
  <2> QED BY <1>7, <2>1 DEF Settle, TypeOK, WakeType, table, lock, wake
<1>8. CASE ReadFault(g, u) \/ AttemptFault(g, u) \/ ReleaseFault(g, u)
  <2>1. /\ att' \in [Generations -> [Uploads -> AttemptPhase]]
        /\ used' \in [calls: Nat, outages: Nat, retries: Nat, faults: Nat]
    BY <1>0, <1>1, <1>8 DEF ReadFault, AttemptFault, ReleaseFault, AttemptPhase, Spend
  <2> QED BY <1>8, <2>1 DEF ReadFault, AttemptFault, ReleaseFault, TypeOK, WakeType, table, flags, lock,
                            pass, wake
<1> QED BY <1>4, <1>5, <1>6, <1>7, <1>8 DEF AttemptStep, AttemptThrows

(* Neither the application, the user, the timers nor the network break a   *)
(* type.                                                                   *)
LEMMA OutsideType ==
    ASSUME TypeOK,
           \/ \E h \in Handles : Wake(h)
           \/ \E u \in Uploads : Enqueue(u) \/ Park(u) \/ Unpark(u)
           \/ Start \/ Process \/ StopBegin \/ StopEnd \/ Tick \/ GoOffline \/ GoOnline
    PROVE  TypeOK'
<1>0. /\ calls' \in [Callers -> [pc: Phase, wakes: BOOLEAN]]
      /\ \A what \in {"calls", "outages"} :
            [used EXCEPT ![what] = @ + 1] \in [calls: Nat, outages: Nat, retries: Nat, faults: Nat]
      /\ \A u \in Uploads : [rows EXCEPT ![u].status = "pending"] \in [Uploads -> Row]
  <2>1. \A u \in Uploads : [rows[u] EXCEPT !.status = "pending"] \in Row
    BY DEF TypeOK, Row
  <2>2. \A u \in Uploads : [rows EXCEPT ![u].status = "pending"] \in [Uploads -> Row]
    BY <2>1 DEF TypeOK
  <2> QED BY <2>2, CallsType DEF Next, TypeOK
<1>1. ASSUME NEW h \in Handles, Wake(h)
      PROVE  TypeOK'
  <2>1. WakeType'
    BY <1>1 DEF Wake, Expire, TypeOK, WakeType
  <2> QED BY <1>0, <1>1, <2>1 DEF Wake, TypeOK, table, flags, lock, pass
<1>2. ASSUME NEW u \in Uploads, Enqueue(u)
      PROVE  TypeOK'
  <2>1. rows' \in [Uploads -> Row]
    BY <1>0, <1>2 DEF Enqueue
  <2> QED BY <1>0, <1>2, <2>1 DEF Enqueue, TypeOK, WakeType, flags, lock, pass, wake
<1>3. ASSUME NEW u \in Uploads, Park(u) \/ Unpark(u)
      PROVE  TypeOK'
  <2>1. rows' \in [Uploads -> Row] /\ taken' \in SUBSET Uploads
    <3>1. Parked \in Row
      BY DEF Parked, Row
    <3>2. rows' \in [Uploads -> Row]
      <4>1. rows' = [rows EXCEPT ![u] = Parked] \/ rows' = [rows EXCEPT ![u].status = "pending"]
        BY <1>3 DEF Park, Unpark
      <4>2. [rows EXCEPT ![u] = Parked] \in [Uploads -> Row]
        BY <3>1 DEF TypeOK
      <4> QED BY <1>0, <4>1, <4>2
    <3>3. taken' = taken \ {u} /\ taken \in SUBSET Uploads
      BY <1>3 DEF Park, Unpark, TypeOK
    <3> QED BY <3>2, <3>3
  <2>2. used' \in [calls: Nat, outages: Nat, retries: Nat, faults: Nat]
    BY <1>0, <1>3 DEF Park, Unpark, AppCall, Spend
  <2> QED BY <1>0, <1>3, <2>1, <2>2 DEF Park, Unpark, TypeOK, WakeType, flags, lock, wake
<1>4. CASE Start \/ Process
  <2>1. used' \in [calls: Nat, outages: Nat, retries: Nat, faults: Nat] /\ started' \in BOOLEAN
    BY <1>0, <1>4 DEF Start, Process, AppCall, Spend, flags, TypeOK
  <2> QED BY <1>0, <1>4, <2>1 DEF Start, Process, TypeOK, WakeType, table, flags, lock, pass, wake
<1>5. CASE StopBegin
  <2>1. used' \in [calls: Nat, outages: Nat, retries: Nat, faults: Nat]
    BY <1>0, <1>5 DEF StopBegin, AppCall, Spend
  <2>2. WakeType'
    BY <1>5 DEF StopBegin, CancelTimer, TypeOK, WakeType
  <2>3. stop' \in [on: BOOLEAN, waits: SUBSET (Generations \X Uploads)]
    BY <1>5 DEF StopBegin, InFlight, TypeOK
  <2> QED BY <1>0, <1>5, <2>1, <2>2, <2>3 DEF StopBegin, TypeOK, table, lock, pass
<1>6. CASE StopEnd
  <2>1. stop' \in [on: BOOLEAN, waits: SUBSET (Generations \X Uploads)]
    BY <1>6 DEF StopEnd, TypeOK
  <2> QED BY <1>0, <1>6, <2>1 DEF StopEnd, TypeOK, WakeType, table, lock, pass, wake
<1>7. CASE Tick
  BY <1>0, <1>7 DEF Tick, TypeOK, WakeType, flags, lock, pass, wake
<1>8. CASE GoOffline \/ GoOnline
  <2>1. used' \in [calls: Nat, outages: Nat, retries: Nat, faults: Nat] /\ online' \in BOOLEAN
    BY <1>0, <1>8 DEF GoOffline, GoOnline, Spend, TypeOK
  <2> QED BY <1>0, <1>8, <2>1 DEF GoOffline, GoOnline, TypeOK, WakeType, flags, lock, pass, wake
<1> QED BY <1>1, <1>2, <1>3, <1>4, <1>5, <1>6, <1>7, <1>8

(* No step breaks a type.                                                  *)
LEMMA NextType == TypeOK /\ BatchesCounted /\ [Next]_vars => TypeOK'
<1> SUFFICES ASSUME TypeOK, BatchesCounted, [Next]_vars PROVE TypeOK'
  OBVIOUS
<1>1. CASE UNCHANGED vars
  BY <1>1 DEF vars, table, flags, lock, pass, wake, TypeOK, WakeType
<1>2. CASE Next
  BY <1>2, CallStepType, AttemptStepType, OutsideType DEF Next
<1> QED BY <1>1, <1>2

-----------------------------------------------------------------------------
(* One pass at a time                                                      *)

(* Where a call is after a step of its own, and that the others stay.      *)
LEMMA OthersStay ==
    ASSUME TypeOK, NEW c \in Callers, NEW pc \in Phase, Goto(c, pc)
    PROVE  /\ calls'[c].pc = pc
           /\ calls'[c].wakes = calls[c].wakes
           /\ \A d \in Callers \ {c} : calls'[d] = calls[d]
BY DEF Goto, TypeOK

(* If nobody enters or leaves the lock, the pass stays single.             *)
LEMMA HoldingKept ==
    ASSUME SingleFlight, running' = running,
           \A d \in Callers : calls'[d].pc \in Holding <=> calls[d].pc \in Holding
    PROVE  SingleFlight'
BY DEF SingleFlight

(* Only four steps of a call touch the lock.                               *)
LEMMA LockKept ==
    ASSUME [Next]_vars, \A c \in Callers : ~(Enter(c) \/ Recheck(c) \/ Unlock(c) \/ Reject(c))
    PROVE  running' = running
<1>1. CASE \E c \in Callers : CallStep(c) \/ PassFault(c)
  BY <1>1 DEF CallStep, BeginPass, CheckOnline, GetPending, Launch, RaceWon, EndPass,
              ScheduleWake, ArmTimer, PassFault, lock
<1>2. CASE \E g \in Generations, u \in Uploads : AttemptStep(g, u) \/ AttemptThrows(g, u)
  BY <1>2 DEF AttemptStep, Claim, ReadStatus, Finish, Interrupt, Release, Settle, AttemptThrows,
              ClaimFault, ReadFault, AttemptFault, ReleaseFault, lock
<1>3. CASE Start \/ Process \/ \E h \in Handles : Wake(h)
  BY <1>3 DEF Start, Process, Wake, lock
<1>4. CASE \E u \in Uploads : Enqueue(u) \/ Park(u) \/ Unpark(u)
  BY <1>4 DEF Enqueue, Park, Unpark, lock
<1>5. CASE StopBegin \/ StopEnd \/ Tick \/ GoOffline \/ GoOnline
  BY <1>5 DEF StopBegin, StopEnd, Tick, GoOffline, GoOnline, lock
<1>6. CASE UNCHANGED vars
  BY <1>6 DEF vars, lock
<1> QED BY <1>1, <1>2, <1>3, <1>4, <1>5, <1>6 DEF Next

(* No step lets a second call of process() into the pass, and the lock is  *)
(* released exactly when the pass is left.                                 *)
LEMMA SingleFlightStep ==
    ASSUME TypeOK, SingleFlight, [Next]_vars
    PROVE  SingleFlight'
<1>1. ASSUME NEW c \in Callers, Enter(c) \/ Recheck(c)
      PROVE  SingleFlight'
  <2>0. calls[c].pc \notin Holding
    BY <1>1 DEF Enter, Recheck, Holding, Looping
  <2>1. CASE ~running /\ EnterPass(c)
    <3>1. running' = TRUE /\ Goto(c, "isOnline")
      BY <2>1 DEF EnterPass
    <3>2. \A d \in Callers : calls[d].pc \notin Holding
      BY <2>1 DEF SingleFlight
    <3>3. calls'[c].pc \in Holding /\ \A d \in Callers \ {c} : calls'[d] = calls[d]
      BY <3>1, OthersStay DEF Phase, Holding
    <3> QED BY <3>1, <3>2, <3>3 DEF SingleFlight
  <2>2. CASE ~(~running /\ EnterPass(c))
    <3>1. running' = running /\ Return(c)
      BY <1>1, <2>2 DEF Enter, Recheck, EnterPass, lock
    <3>2. Goto(c, "wake") \/ Goto(c, "idle")
      BY <3>1 DEF Return
    <3>3. calls'[c].pc \notin Holding /\ \A d \in Callers \ {c} : calls'[d] = calls[d]
      BY <3>2, OthersStay DEF Phase, Holding, Looping
    <3> QED BY <2>0, <3>1, <3>3, HoldingKept
  <2> QED BY <2>1, <2>2
<1>2. ASSUME NEW c \in Callers, Unlock(c) \/ Reject(c)
      PROVE  SingleFlight'
  <2>1. calls[c].pc \in Holding /\ running' = FALSE /\ (Goto(c, "recheck") \/ Goto(c, "idle"))
    BY <1>2 DEF Unlock, Reject, Holding
  <2>2. calls'[c].pc \notin Holding /\ \A d \in Callers \ {c} : calls'[d] = calls[d]
    BY <2>1, OthersStay DEF Phase, Holding, Looping
  <2>3. \A d \in Callers \ {c} : calls[d].pc \notin Holding
    BY <2>1 DEF SingleFlight
  <2> QED BY <2>1, <2>2, <2>3 DEF SingleFlight
<1>3. CASE \A c \in Callers : ~(Enter(c) \/ Recheck(c) \/ Unlock(c) \/ Reject(c))
  <2>0. running' = running
    BY <1>3, LockKept
  <2>1. CASE UNCHANGED calls
    BY <2>0, <2>1, HoldingKept
  <2>2. ASSUME NEW c \in Callers, Called(c)
        PROVE  SingleFlight'
    <3>1. \A d \in Callers : calls'[d] = IF d = c THEN calls'[c] ELSE calls[d]
      BY <2>2 DEF Called, TypeOK
    <3>2. calls[c].pc \notin Holding /\ calls'[c].pc \notin Holding
      BY <2>2 DEF Called, TypeOK, Holding, Looping
    <3> QED BY <2>0, <3>1, <3>2, HoldingKept
  <2>3. ASSUME NEW c \in Callers, Moves(c), CallStep(c)
        PROVE  SingleFlight'
    <3>1. PICK pc \in Phase : <<calls[c].pc, pc>> \in CallGraph /\ Goto(c, pc)
      BY <2>3 DEF Moves
    <3>2. calls[c].pc \notin {"called", "recheck", "unlock", "rejected"}
      BY <1>3, <2>3 DEF CallStep, BeginPass, CheckOnline, GetPending, Launch, RaceWon, EndPass,
                        ScheduleWake, ArmTimer
    <3>3. calls[c].pc \in Holding <=> pc \in Holding
      BY <3>1, <3>2 DEF CallGraph, Holding, Looping
    <3> QED BY <2>0, <3>1, <3>3, OthersStay, HoldingKept
  <2>4. ASSUME NEW c \in Callers, Goto(c, "rejected"), PassFault(c)
        PROVE  SingleFlight'
    <3>1. calls[c].pc \in Holding /\ "rejected" \in Holding /\ "rejected" \in Phase
      BY <2>4 DEF PassFault, Holding, Looping, Phase
    <3> QED BY <2>0, <2>4, <3>1, OthersStay, HoldingKept
  <2> QED BY <2>1, <2>2, <2>3, <2>4, CallsMove DEF TypeOK
<1> QED BY <1>1, <1>2, <1>3

-----------------------------------------------------------------------------
(* The batches                                                             *)

(* A call takes from what it fetched no more uploads than it has slots,    *)
(* none in flight and none stalled.                                        *)
LEMMA ChosenFits ==
    ASSUME TypeOK, PassCap
    PROVE  /\ Chosen(fetched) \in SUBSET Uploads
           /\ Chosen(fetched) \cap Batch(gen) = {}
           /\ Chosen(fetched) \cap stalled = {}
           /\ Cardinality(Batch(gen) \cup Chosen(fetched)) <= Concurrency
<1> DEFINE S == (fetched \ stalled) \ InFlight
           n == Concurrency - Cardinality(InFlight)
<1>1. /\ S \in SUBSET Uploads /\ InFlight = Batch(gen) /\ Batch(gen) \in SUBSET Uploads
      /\ gen \in Generations
  BY DEF TypeOK, InFlight, Batch
<1>2. S \in SUBSET Nat /\ IsFiniteSet(S) /\ IsFiniteSet(Batch(gen)) /\ Cardinality(Batch(gen)) \in Nat
  BY <1>1, RunnerAssumption, UploadSets DEF RunnerAssumption
<1>3. Cardinality(Batch(gen)) <= Concurrency /\ Concurrency \in Nat
  BY <1>1, RunnerAssumption DEF PassCap, RunnerAssumption
<1>4. n \in Nat
  BY <1>1, <1>2, <1>3
<1>5. Chosen(fetched) = First(S, n)
  BY DEF Chosen
<1>6. Chosen(fetched) \subseteq S /\ IsFiniteSet(Chosen(fetched)) /\ Cardinality(Chosen(fetched)) <= n
  <2> HIDE DEF S, n
  <2> QED BY <1>2, <1>4, <1>5, FirstSize
<1>7. Chosen(fetched) \cap Batch(gen) = {} /\ Batch(gen) \cap Chosen(fetched) = {}
  BY <1>1, <1>6
<1>8. Cardinality(Chosen(fetched)) \in Nat
  BY <1>6, FS_CardinalityType
<1>9. Cardinality(Batch(gen) \cup Chosen(fetched))
        = Cardinality(Batch(gen)) + Cardinality(Chosen(fetched)) - Cardinality({})
  BY <1>2, <1>6, <1>7, FS_Union
<1>10. Cardinality({}) = 0
  BY FS_EmptySet
<1>11. Cardinality(Batch(gen) \cup Chosen(fetched)) <= Concurrency
  <2>1. Cardinality(Chosen(fetched)) <= Concurrency - Cardinality(Batch(gen))
    BY <1>1, <1>6
  <2> QED BY <2>1, <1>2, <1>3, <1>8, <1>9, <1>10
<1> QED BY <1>1, <1>6, <1>7, <1>11

(* A launch adds to the batch of the present pass, and to no other.        *)
LEMMA LaunchBatch ==
    ASSUME TypeOK, PassCap, NEW c \in Callers, Launch(c)
    PROVE  /\ \A g \in Generations, u \in Uploads :
                 att'[g][u] = IF g = gen /\ u \in Chosen(fetched) THEN "claim" ELSE att[g][u]
           /\ Batch(gen)' = Batch(gen) \cup Chosen(fetched)
           /\ \A g \in Generations \ {gen} : Batch(g)' = Batch(g)
           /\ gen' = gen /\ calls'[c].pc \in Looping
<1>1. Chosen(fetched) \in SUBSET Uploads
  BY ChosenFits
<1>2. \A g \in Generations, u \in Uploads :
         att'[g][u] = IF g = gen /\ u \in Chosen(fetched) THEN "claim" ELSE att[g][u]
  BY DEF Launch, TypeOK
<1>3. gen' = gen /\ gen \in Generations
  BY DEF Launch, TypeOK
<1>4. \E pc \in Looping : Goto(c, pc)
  <2>1. calls[c].pc = "fetched" /\ ((\E inFlight : Fill(c, inFlight)) \/ Rest(c, InFlight))
    BY DEF Launch
  <2>2. \A inFlight : Fill(c, inFlight) => Goto(c, "fetch") \/ Rest(c, inFlight)
    BY DEF Fill
  <2> QED BY <2>1, <2>2, RestMoves DEF Looping
<1>5. calls'[c].pc \in Looping
  BY <1>4, OthersStay DEF Phase, Holding
<1> QED BY <1>1, <1>2, <1>3, <1>5 DEF Batch

(* A step of an attempt moves that attempt only, and it is no longer, or   *)
(* still, in its batch.                                                    *)
LEMMA AttemptMoves ==
    ASSUME TypeOK, NEW g \in Generations, NEW u \in Uploads, AttemptStep(g, u) \/ AttemptThrows(g, u)
    PROVE  /\ att[g][u] # "none"
           /\ att'[g][u] = "none" <=> Settle(g, u)
           /\ \A h \in Generations, v \in Uploads :
                 ~(h = g /\ v = u) => att'[h][v] = att[h][v]
           /\ gen' = gen /\ calls' = calls
<1>1. PICK pc \in AttemptPhase : att' = [att EXCEPT ![g][u] = pc] /\ (pc = "none" <=> Settle(g, u))
  <2>1. CASE Settle(g, u)
    BY <2>1 DEF Settle, AttemptGoto, AttemptPhase
  <2>2. CASE ~Settle(g, u)
    BY <2>2 DEF AttemptStep, Claim, ReadStatus, Finish, Interrupt, Release, AttemptThrows, ClaimFault,
                ReadFault, AttemptFault, ReleaseFault, Ends, Reports, AttemptGoto, AttemptPhase
  <2> QED BY <2>1, <2>2
<1>2. att[g][u] # "none" /\ gen' = gen /\ calls' = calls
  BY DEF AttemptStep, Claim, ReadStatus, Finish, Interrupt, Release, Settle, AttemptThrows,
         ClaimFault, ReadFault, AttemptFault, ReleaseFault
<1> QED BY <1>1, <1>2 DEF TypeOK

(* No other step touches an attempt.                                       *)
LEMMA AttemptsKept ==
    ASSUME [Next]_vars, \A c \in Callers : ~Launch(c),
           \A g \in Generations, u \in Uploads : ~(AttemptStep(g, u) \/ AttemptThrows(g, u))
    PROVE  att' = att
<1>1. CASE \E c \in Callers : CallStep(c) \/ PassFault(c)
  BY <1>1 DEF CallStep, Enter, Unlock, Recheck, Reject, BeginPass, CheckOnline, GetPending, RaceWon,
              EndPass, ScheduleWake, ArmTimer, PassFault
<1>2. CASE Start \/ Process \/ \E h \in Handles : Wake(h)
  BY <1>2 DEF Start, Process, Wake
<1>3. CASE \E u \in Uploads : Enqueue(u) \/ Park(u) \/ Unpark(u)
  BY <1>3 DEF Enqueue, Park, Unpark
<1>4. CASE StopBegin \/ StopEnd \/ Tick \/ GoOffline \/ GoOnline
  BY <1>4 DEF StopBegin, StopEnd, Tick, GoOffline, GoOnline
<1>5. CASE UNCHANGED vars
  BY <1>5 DEF vars
<1> QED BY <1>1, <1>2, <1>3, <1>4, <1>5 DEF Next

(* A batch only shrinks, but for a launch of the present pass.             *)
LEMMA BatchesShrink ==
    ASSUME TypeOK, [Next]_vars, \A c \in Callers : ~Launch(c)
    PROVE  \A g \in Generations : Batch(g)' \subseteq Batch(g)
<1>1. ASSUME NEW g \in Generations, NEW u \in Uploads, AttemptStep(g, u) \/ AttemptThrows(g, u)
      PROVE  \A h \in Generations : Batch(h)' \subseteq Batch(h)
  BY <1>1, AttemptMoves DEF Batch
<1>2. CASE att' = att
  BY <1>2 DEF Batch
<1> QED BY <1>1, <1>2, AttemptsKept

(* Only a fault starts another batch, and it is counted.                   *)
LEMMA GenerationKept ==
    ASSUME TypeOK, [Next]_vars, \A c \in Callers : ~PassFault(c)
    PROVE  /\ gen' = gen
           /\ \/ used'.faults = used.faults
              \/ used.faults < MaxFaults /\ used'.faults = used.faults + 1
<1>0. \A what \in {"calls", "outages", "retries"} : Spend(what) => used'.faults = used.faults
  BY DEF Spend, TypeOK
<1>1. CASE \E c \in Callers : CallStep(c)
  BY <1>1 DEF CallStep, Enter, Unlock, Recheck, Reject, BeginPass, CheckOnline, GetPending, Launch,
              RaceWon, EndPass, ScheduleWake, ArmTimer
<1>2. CASE \E g \in Generations, u \in Uploads : AttemptThrows(g, u)
  BY <1>2 DEF AttemptThrows, ClaimFault, ReadFault, AttemptFault, ReleaseFault, Spend, TypeOK
<1>3. CASE \E g \in Generations, u \in Uploads : AttemptStep(g, u)
  BY <1>0, <1>3 DEF AttemptStep, Claim, ReadStatus, Finish, Interrupt, Release, Settle
<1>4. CASE Start \/ Process \/ \E h \in Handles : Wake(h)
  BY <1>0, <1>4 DEF Start, Process, Wake, AppCall
<1>5. CASE \E u \in Uploads : Enqueue(u) \/ Park(u) \/ Unpark(u)
  BY <1>0, <1>5 DEF Enqueue, Park, Unpark, AppCall
<1>6. CASE StopBegin \/ StopEnd \/ Tick \/ GoOffline \/ GoOnline
  BY <1>0, <1>6 DEF StopBegin, StopEnd, Tick, GoOffline, GoOnline, AppCall
<1>7. CASE UNCHANGED vars
  BY <1>7 DEF vars
<1> QED BY <1>1, <1>2, <1>3, <1>4, <1>5, <1>6, <1>7 DEF Next

(* No launch goes into a batch that is not the present pass's, and there   *)
(* are no more batches than faults.                                        *)
LEMMA BatchesCountedStep ==
    ASSUME TypeOK, PassCap, BatchesCounted, [Next]_vars
    PROVE  BatchesCounted'
<1>0. /\ gen \in Nat /\ used.faults \in Nat /\ MaxFaults \in Nat /\ Generations \subseteq Nat
      /\ gen <= used.faults /\ used.faults <= MaxFaults
  BY RunnerAssumption DEF TypeOK, Generations, RunnerAssumption, BatchesCounted
<1>1. /\ gen' = gen \/ gen' = gen + 1
      /\ gen' <= used'.faults /\ used'.faults <= MaxFaults
  <2>1. CASE \A c \in Callers : ~PassFault(c)
    BY <1>0, <2>1, GenerationKept
  <2>2. ASSUME NEW c \in Callers, PassFault(c)
        PROVE  /\ gen' = gen + 1 /\ used.faults < MaxFaults
               /\ used'.faults = used.faults + 1
    BY <2>2 DEF PassFault, Spend, TypeOK
  <2> QED BY <1>0, <2>1, <2>2
<1>2. ASSUME NEW g \in Generations, Batch(g)' # {}
      PROVE  g <= gen'
  <2>1. g <= gen
    <3>1. CASE \A c \in Callers : ~Launch(c)
      BY <1>2, <3>1, BatchesShrink DEF BatchesCounted
    <3>2. ASSUME NEW c \in Callers, Launch(c)
          PROVE  g <= gen
      BY <1>0, <1>2, <3>2, LaunchBatch DEF BatchesCounted
    <3> QED BY <3>1, <3>2
  <2> QED BY <1>0, <1>1, <2>1
<1> QED BY <1>1, <1>2 DEF BatchesCounted, Batch

(* A pass with attempts in flight goes on.                                 *)
LEMMA BatchDrainedStep ==
    ASSUME TypeOK, PassCap, BatchesCounted, BatchDrained, [Next]_vars
    PROVE  BatchDrained'
<1>0. gen \in Generations /\ gen \in Nat /\ Generations \subseteq Nat
  BY DEF TypeOK, Generations
<1> SUFFICES ASSUME Batch(gen)' # {}
             PROVE  \E c \in Callers : calls'[c].pc \in Looping
  BY DEF BatchDrained
<1>1. CASE \E c \in Callers : Launch(c)
  BY <1>1, LaunchBatch
<1>2. ASSUME NEW c \in Callers, PassFault(c)
      PROVE  FALSE
  <2>1. gen' = gen + 1 /\ gen' \in Generations /\ UNCHANGED att
    BY <1>2, NextType DEF PassFault, Next, TypeOK
  <2>2. Batch(gen + 1) # {}
    BY <2>1 DEF Batch
  <2> QED BY <1>0, <2>1, <2>2 DEF BatchesCounted
<1>3. CASE \A c \in Callers : ~Launch(c) /\ ~PassFault(c)
  <2>1. gen' = gen /\ Batch(gen) # {}
    <3>1. gen' = gen /\ Batch(gen)' = {u \in Uploads : att'[gen][u] # "none"}
      BY <1>3, GenerationKept DEF Batch
    <3> QED BY <1>0, <1>3, <3>1, BatchesShrink
  <2>2. PICK c \in Callers : calls[c].pc \in Looping
    BY <2>1 DEF BatchDrained
  <2>3. CASE UNCHANGED calls
    BY <2>2, <2>3
  <2>4. ASSUME NEW d \in Callers, Called(d)
        PROVE  calls'[c].pc \in Looping
    BY <2>2, <2>4 DEF Called, TypeOK, Looping
  <2>5. ASSUME NEW d \in Callers, Moves(d), CallStep(d)
        PROVE  calls'[c].pc \in Looping
    <3>1. PICK pc \in Phase : <<calls[d].pc, pc>> \in CallGraph /\ Goto(d, pc)
      BY <2>5 DEF Moves
    <3>2. CASE d # c
      BY <2>2, <3>1, <3>2, OthersStay
    <3>3. CASE d = c
      <4>1. calls[c].pc # "all"
        <5> SUFFICES ASSUME calls[c].pc = "all" PROVE FALSE
          OBVIOUS
        <5>1. EndPass(c)
          BY <2>5, <3>3 DEF CallStep, Enter, Unlock, Recheck, Reject, BeginPass, CheckOnline,
                            GetPending, Launch, RaceWon, ScheduleWake, ArmTimer
        <5> QED BY <2>1, <5>1 DEF EndPass, InFlight, Batch
      <4>2. pc \in Looping
        BY <2>2, <3>1, <3>3, <4>1 DEF CallGraph, Looping
      <4> QED BY <3>1, <3>3, <4>2, OthersStay
    <3> QED BY <3>2, <3>3
  <2> QED BY <1>3, <2>2, <2>3, <2>4, <2>5, CallsMove DEF TypeOK
<1> QED BY <1>1, <1>2, <1>3

(* No pass has more attempts in flight than it has slots.                  *)
LEMMA PassCapStep ==
    ASSUME TypeOK, PassCap, [Next]_vars
    PROVE  PassCap'
<1> SUFFICES ASSUME NEW g \in Generations
             PROVE  Cardinality(Batch(g)') <= Concurrency
  BY DEF PassCap
<1>0. /\ Batch(g) \in SUBSET Uploads /\ Batch(g)' \in SUBSET Uploads
      /\ Cardinality(Batch(g)) <= Concurrency /\ Concurrency \in Nat
  BY RunnerAssumption DEF Batch, PassCap, RunnerAssumption
<1>1. CASE \A c \in Callers : ~Launch(c)
  <2>1. Batch(g)' \in SUBSET Batch(g)
    BY <1>1, BatchesShrink
  <2>2. Cardinality(Batch(g)') <= Cardinality(Batch(g))
    BY <1>0, <2>1, UploadSets, FS_Subset
  <2>3. Cardinality(Batch(g)') \in Nat /\ Cardinality(Batch(g)) \in Nat
    BY <1>0, UploadSets
  <2> QED BY <1>0, <2>2, <2>3
<1>2. ASSUME NEW c \in Callers, Launch(c)
      PROVE  Cardinality(Batch(g)') <= Concurrency
  BY <1>0, <1>2, LaunchBatch, ChosenFits
<1> QED BY <1>1, <1>2

-----------------------------------------------------------------------------
(* Claims, and what a pass remembers of them                               *)

(* The steps that touch neither row nor attempt, nor what the pass knows   *)
(* of them, and leave no call fetching that was not.                       *)
Aside ==
    /\ UNCHANGED <<rows, gen, att, stalled, taken, limit, overtaken>>
    /\ \A c \in Callers : calls'[c].pc = "fetch" => calls[c].pc = "fetch"

(* Most steps are of that kind.                                            *)
LEMMA AsideSteps ==
    ASSUME TypeOK,
           \/ \E c \in Callers :
                 \/ Enter(c) \/ Unlock(c) \/ Recheck(c) \/ Reject(c) \/ BeginPass(c) \/ RaceWon(c)
                 \/ ScheduleWake(c) \/ ArmTimer(c)
           \/ \E h \in Handles : Wake(h)
           \/ Start \/ Process \/ StopBegin \/ StopEnd \/ Tick \/ GoOffline \/ GoOnline
           \/ UNCHANGED vars
    PROVE  Aside
<1>0. \A c \in Callers : Called(c) => \A d \in Callers : calls'[d].pc = "fetch" => calls[d].pc = "fetch"
  BY DEF Called, TypeOK
<1>1. \A wakes \in BOOLEAN : Call(wakes) => \E c \in Callers : Called(c)
  BY DEF Call, Called
<1>2. ASSUME NEW c \in Callers,
             \/ Enter(c) \/ Unlock(c) \/ Recheck(c) \/ Reject(c) \/ BeginPass(c) \/ RaceWon(c)
             \/ ScheduleWake(c) \/ ArmTimer(c)
      PROVE  Aside
  <2>1. UNCHANGED <<rows, gen, att, stalled, taken, limit, overtaken>>
    BY <1>2 DEF Enter, Unlock, Recheck, Reject, BeginPass, RaceWon, ScheduleWake, ArmTimer, table,
                pass
  <2>2. calls[c].pc \notin {"loopOnline", "fetched"}
    BY <1>2 DEF Enter, Unlock, Recheck, Reject, BeginPass, RaceWon, ScheduleWake, ArmTimer
  <2>3. PICK pc \in Phase : <<calls[c].pc, pc>> \in CallGraph /\ Goto(c, pc)
    BY <1>2, CallStepMoves DEF CallStep, Moves
  <2>4. pc # "fetch"
    BY <2>2, <2>3 DEF CallGraph
  <2>5. \A d \in Callers : calls'[d].pc = "fetch" => calls[d].pc = "fetch"
    BY <2>3, <2>4, OthersStay
  <2> QED BY <2>1, <2>5 DEF Aside
<1>3. CASE Start \/ Process \/ \E h \in Handles : Wake(h)
  <2>1. \E c \in Callers : Called(c)
    BY <1>1, <1>3 DEF Start, Process, Wake
  <2> QED BY <1>0, <1>3, <2>1 DEF Start, Process, Wake, table, pass, Aside
<1>4. CASE StopBegin \/ StopEnd \/ Tick \/ GoOffline
  BY <1>4 DEF StopBegin, StopEnd, Tick, GoOffline, table, pass, Aside
<1>5. CASE GoOnline
  <2>1. UNCHANGED calls \/ \E c \in Callers : Called(c)
    BY <1>1, <1>5 DEF GoOnline, TriggerIfStarted
  <2> QED BY <1>0, <1>5, <2>1 DEF GoOnline, pass, Aside
<1>6. CASE UNCHANGED vars
  BY <1>6 DEF vars, table, pass, Aside
<1> QED BY <1>2, <1>3, <1>4, <1>5, <1>6

(* What the steps of the user do to a row.                                 *)
LEMMA UserRows ==
    ASSUME TypeOK, NEW u \in Uploads, Enqueue(u) \/ Park(u) \/ Unpark(u)
    PROVE  /\ \A v \in Uploads \ {u} : rows'[v] = rows[v]
           /\ rows'[u].status # "uploading"
           /\ Enqueue(u) => rows[u].status = "none" /\ taken' = taken
           /\ Park(u) \/ Unpark(u) => taken' = taken \ {u}
           /\ UNCHANGED <<gen, att, stalled, limit, overtaken>>
<1>1. rows' = [rows EXCEPT ![u] = Parked] \/ rows' = [rows EXCEPT ![u].status = "pending"]
  BY DEF Enqueue, Park, Unpark
<1>2. /\ \A v \in Uploads \ {u} : rows'[v] = rows[v]
      /\ rows'[u].status # "uploading"
  <2>1. rows \in [Uploads -> Row] /\ Parked.status # "uploading"
    BY DEF TypeOK, Parked
  <2> QED BY <1>1, <2>1 DEF Row
<1>3. /\ Enqueue(u) => rows[u].status = "none" /\ taken' = taken
      /\ Park(u) \/ Unpark(u) => taken' = taken \ {u}
      /\ UNCHANGED <<gen, att, stalled, limit, overtaken>>
  BY DEF Enqueue, Park, Unpark, pass
<1> QED BY <1>2, <1>3

(* An attempt writes no other upload's row.                                *)
LEMMA OtherRows ==
    ASSUME TypeOK, NEW g \in Generations, NEW u \in Uploads, AttemptStep(g, u) \/ AttemptThrows(g, u),
           NEW v \in Uploads, v # u
    PROVE  rows'[v] = rows[v]
<1>1. rows' = rows \/ \E row : rows' = [rows EXCEPT ![u] = row]
  BY DEF AttemptStep, Claim, ReadStatus, Finish, Interrupt, Release, Ends, Mark, Settle,
         AttemptThrows, ClaimFault, ReadFault, AttemptFault, ReleaseFault, table
<1> QED BY <1>1 DEF TypeOK

(* What the steps of an attempt do to its row: it is written by its owner, *)
(* or claimed.                                                             *)
LEMMA AttemptRow ==
    ASSUME TypeOK, NEW g \in Generations, NEW u \in Uploads, AttemptStep(g, u) \/ AttemptThrows(g, u)
    PROVE  \/ rows'[u] = rows[u]
           \/ /\ att[g][u] = "claim" /\ Due(u)
              /\ att'[g][u] = "busy" \/ AttemptThrows(g, u)
              /\ rows'[u] = [status |-> "uploading", at |-> NULL, by |-> g]
           \/ /\ att[g][u] \in {"busy", "release"} /\ Owns(g, u)
              /\ rows'[u] = Parked \/ rows'[u].status = "pending"
<1>0. rows \in [Uploads -> Row] /\ att \in [Generations -> [Uploads -> AttemptPhase]]
  BY DEF TypeOK
<1>1. CASE Claim(g, u) \/ ClaimFault(g, u)
  BY <1>0, <1>1 DEF Claim, ClaimFault, Mark, AttemptGoto, AttemptThrows
<1>2. CASE Finish(g, u) \/ Release(g, u)
  <2>1. CASE ~Owns(g, u)
    BY <1>2, <2>1 DEF Finish, Release
  <2>2. CASE Owns(g, u)
    <3>1. \/ Ends(g, u, Parked, "other")
          \/ \E at : Ends(g, u, PendingAt(at), "pending")
      BY <1>2, <2>2 DEF Finish, Release
    <3>2. rows'[u] = Parked \/ rows'[u].status = "pending"
      BY <1>0, <3>1 DEF Ends, PendingAt
    <3> QED BY <1>2, <2>2, <3>2 DEF Finish, Release
  <2> QED BY <2>1, <2>2
<1>3. CASE ReadStatus(g, u) \/ Interrupt(g, u) \/ Settle(g, u)
  BY <1>3 DEF ReadStatus, Interrupt, Settle, table
<1>4. CASE ReadFault(g, u) \/ AttemptFault(g, u) \/ ReleaseFault(g, u)
  BY <1>4 DEF ReadFault, AttemptFault, ReleaseFault, table
<1> QED BY <1>1, <1>2, <1>3, <1>4 DEF AttemptStep, AttemptThrows

(* Of an attempt, only a fault leaves its row unattended, and no other.    *)
LEMMA AttemptAttends ==
    ASSUME TypeOK, NEW g \in Generations, NEW u \in Uploads, AttemptStep(g, u) \/ AttemptThrows(g, u),
           NEW v \in Unattended', v \notin Unattended
    PROVE  v = u /\ AttemptThrows(g, u)
<1>0. v \in Uploads /\ rows'[v].status = "uploading"
  BY DEF Unattended
<1>1. ASSUME rows'[v] = rows[v]
      PROVE  \E h \in Generations :
                /\ rows[v].by = h /\ att[h][v] \in {"busy", "release"}
                /\ att'[h][v] \notin {"busy", "release"}
  BY <1>0, <1>1 DEF Unattended
<1>2. CASE v # u
  <2>1. rows'[v] = rows[v] /\ \A h \in Generations : att'[h][v] = att[h][v]
    BY <1>0, <1>2, OtherRows, AttemptMoves
  <2> QED BY <1>1, <2>1
<1>3. CASE v = u /\ rows'[v] = rows[v]
  <2>1. PICK h \in Generations : /\ rows[v].by = h /\ att[h][v] \in {"busy", "release"}
                                 /\ att'[h][v] \notin {"busy", "release"}
    BY <1>1, <1>3
  <2>2. h = g
    BY <1>0, <1>3, <2>1, AttemptMoves
  <2>3. Owns(g, u) /\ att[g][u] \in {"busy", "release"} /\ att'[g][u] \notin {"busy", "release"}
    BY <1>0, <1>3, <2>1, <2>2 DEF Owns
  <2>4. ~Claim(g, u) /\ ~ReadStatus(g, u) /\ ~Settle(g, u) /\ ~Interrupt(g, u)
    BY <2>3 DEF Claim, ReadStatus, Settle, Interrupt, AttemptGoto, TypeOK
  <2>5. ~Finish(g, u) /\ ~Release(g, u)
    <3>1. \A at, pc : ~Ends(g, u, Parked, pc) /\ ~Ends(g, u, PendingAt(at), pc)
      BY <1>0, <1>3 DEF Ends, Parked, PendingAt, TypeOK
    <3> QED BY <2>3, <3>1 DEF Finish, Release
  <2> QED BY <1>3, <2>4, <2>5 DEF AttemptStep
<1>4. CASE v = u /\ rows'[v] # rows[v]
  <2>1. ~(rows'[u] = Parked \/ rows'[u].status = "pending")
    BY <1>0, <1>4 DEF Parked
  <2>2. /\ att'[g][u] = "busy" \/ AttemptThrows(g, u)
        /\ rows'[u] = [status |-> "uploading", at |-> NULL, by |-> g]
    BY <1>4, <2>1, AttemptRow
  <2>3. rows'[u].by = g
    BY <2>2
  <2> QED BY <1>4, <2>2, <2>3 DEF Unattended
<1> QED BY <1>2, <1>3, <1>4

(* No other step leaves a row unattended.                                  *)
LEMMA OthersAttend ==
    ASSUME TypeOK, PassCap, [Next]_vars,
           \A g \in Generations, u \in Uploads : ~(AttemptStep(g, u) \/ AttemptThrows(g, u))
    PROVE  Unattended' \subseteq Unattended
<1> SUFFICES ASSUME NEW v \in Uploads, rows'[v].status = "uploading", v \notin Unattended
             PROVE  v \notin Unattended'
  BY DEF Unattended
<1>1. ASSUME rows'[v] = rows[v],
             \A g \in Generations : att[g][v] \in {"busy", "release"} => att'[g][v] = att[g][v]
      PROVE  v \notin Unattended'
  BY <1>1 DEF Unattended
<1>2. ASSUME NEW c \in Callers, Launch(c)
      PROVE  v \notin Unattended'
  <2>1. rows' = rows
    BY <1>2 DEF Launch, table
  <2>2. \A g \in Generations : att[g][v] \in {"busy", "release"} => att'[g][v] = att[g][v]
    BY <1>2, LaunchBatch, ChosenFits DEF Batch
  <2> QED BY <1>1, <2>1, <2>2
<1>3. ASSUME NEW c \in Callers,
             CheckOnline(c) \/ GetPending(c) \/ EndPass(c) \/ PassFault(c)
      PROVE  v \notin Unattended'
  BY <1>1, <1>3 DEF CheckOnline, GetPending, EndPass, PassFault, table
<1>4. ASSUME NEW u \in Uploads, Enqueue(u) \/ Park(u) \/ Unpark(u)
      PROVE  v \notin Unattended'
  BY <1>1, <1>4, UserRows
<1>5. CASE Aside
  BY <1>1, <1>5 DEF Aside
<1> QED BY <1>2, <1>3, <1>4, <1>5, AsideSteps DEF Next, CallStep

(* Only what throws counts as a fault.                                     *)
LEMMA FaultsKept ==
    ASSUME TypeOK, [Next]_vars, \A c \in Callers : ~PassFault(c),
           \A g \in Generations, u \in Uploads : ~AttemptThrows(g, u)
    PROVE  used'.faults = used.faults
BY DEF Next, CallStep, AttemptStep, vars, TypeOK, Spend, AppCall,
       Enter, Unlock, Recheck, Reject, BeginPass, CheckOnline, GetPending, Launch, RaceWon, EndPass,
       ScheduleWake, ArmTimer, Claim, ReadStatus, Finish, Interrupt, Release, Settle,
       Wake, Enqueue, Park, Unpark, Start, Process, StopBegin, StopEnd, Tick, GoOffline, GoOnline

(* An unattended row costs a fault of its own: the fault of a pass, which  *)
(* moves gen on, has left none.                                            *)
LEMMA ClaimsAttendedStep ==
    ASSUME TypeOK, PassCap, ClaimsAttended, [Next]_vars
    PROVE  ClaimsAttended'
<1>0. /\ Unattended \in SUBSET Uploads /\ Unattended' \in SUBSET Uploads
      /\ gen \in Nat /\ used.faults \in Nat
      /\ Cardinality(Unattended) <= used.faults - gen
  BY DEF Unattended, TypeOK, Generations, ClaimsAttended
<1>1. /\ IsFiniteSet(Unattended) /\ IsFiniteSet(Unattended')
      /\ Cardinality(Unattended) \in Nat /\ Cardinality(Unattended') \in Nat
  BY <1>0, UploadSets
<1>2. ASSUME NEW g \in Generations, NEW u \in Uploads, AttemptThrows(g, u)
      PROVE  Cardinality(Unattended') <= used'.faults - gen'
  <2>1. Unattended' \in SUBSET (Unattended \cup {u})
    BY <1>2, AttemptAttends
  <2>2. IsFiniteSet(Unattended \cup {u})
        /\ Cardinality(Unattended \cup {u}) \in {Cardinality(Unattended), Cardinality(Unattended) + 1}
    BY <1>1, FS_AddElement
  <2>3. Cardinality(Unattended') <= Cardinality(Unattended) + 1
    BY <1>1, <2>1, <2>2, FS_Subset
  <2>4. gen' = gen /\ used'.faults = used.faults + 1
    BY <1>2, AttemptMoves DEF AttemptThrows, ClaimFault, ReadFault, AttemptFault, ReleaseFault, Spend,
                              TypeOK
  <2> QED BY <1>0, <1>1, <2>3, <2>4
<1>3. ASSUME \A g \in Generations, u \in Uploads : ~AttemptThrows(g, u)
      PROVE  Cardinality(Unattended') <= used'.faults - gen'
  <2>1. Unattended' \in SUBSET Unattended
    BY <1>3, AttemptAttends, OthersAttend
  <2>2. Cardinality(Unattended') <= Cardinality(Unattended)
    BY <1>1, <2>1, FS_Subset
  <2>3. CASE \A c \in Callers : ~PassFault(c)
    <3>1. gen' = gen /\ used'.faults = used.faults
      BY <2>3, <1>3, FaultsKept, GenerationKept
    <3> QED BY <1>0, <1>1, <2>2, <3>1
  <2>4. CASE \E c \in Callers : PassFault(c)
    <3>1. gen' = gen + 1 /\ used'.faults = used.faults + 1
      BY <1>0, <2>4 DEF PassFault, Spend, TypeOK
    <3> QED BY <1>0, <1>1, <2>2, <3>1
  <2> QED BY <2>3, <2>4
<1>4. Cardinality(Unattended') <= used'.faults - gen'
  BY <1>2, <1>3
<1> QED BY <1>4 DEF ClaimsAttended

(* The UPDATE of claim() takes effect, whether or not its SELECT throws.   *)
Marks(g, u) == att[g][u] = "claim" /\ Due(u) /\ Mark(g, u)

(* What the steps of an attempt do to the memory of its pass.              *)
LEMMA AttemptMemory ==
    ASSUME TypeOK, NEW g \in Generations, NEW u \in Uploads, AttemptStep(g, u) \/ AttemptThrows(g, u)
    PROVE  /\ limit' = limit
           /\ taken' = taken \/ (g = gen /\ Marks(g, u) /\ taken' = taken \cup {u})
           /\ stalled' = IF Settle(g, u) /\ g = gen /\ att[g][u] = "pending"
                         THEN stalled \cup {u} ELSE stalled
           /\ Settle(g, u) /\ g = gen => overtaken' = TRUE
           /\ ~Settle(g, u) => overtaken' = overtaken
<1>0. overtaken \in BOOLEAN
  BY DEF TypeOK
<1>1. CASE Claim(g, u) \/ ClaimFault(g, u)
  <2>1. ~Settle(g, u)
    BY <1>1 DEF Claim, ClaimFault, Settle
  <2>2. taken' = taken \/ (g = gen /\ Marks(g, u) /\ taken' = taken \cup {u})
    BY <1>1 DEF Claim, ClaimFault, Marks, Mark
  <2> QED BY <1>1, <2>1, <2>2 DEF Claim, ClaimFault
<1>2. CASE Finish(g, u) \/ ReadStatus(g, u) \/ Interrupt(g, u) \/ Release(g, u)
  <2>1. ~Settle(g, u)
    BY <1>2 DEF Settle, Finish, ReadStatus, Interrupt, Release
  <2> QED BY <1>2, <2>1 DEF Finish, ReadStatus, Interrupt, Release, pass
<1>3. CASE ReadFault(g, u) \/ AttemptFault(g, u) \/ ReleaseFault(g, u)
  <2>1. ~Settle(g, u)
    BY <1>3 DEF Settle, ReadFault, AttemptFault, ReleaseFault
  <2> QED BY <1>3, <2>1 DEF ReadFault, AttemptFault, ReleaseFault, pass
<1>4. CASE Settle(g, u)
  BY <1>0, <1>4 DEF Settle
<1> QED BY <1>1, <1>2, <1>3, <1>4 DEF AttemptStep, AttemptThrows

(* What a pass has stalled is settled and stays out of it.                 *)
LEMMA StalledSettledStep ==
    ASSUME TypeOK, PassCap, StalledSettled, [Next]_vars
    PROVE  StalledSettled'
<1> SUFFICES ASSUME NEW v \in stalled'
             PROVE  att'[gen'][v] = "none"
  BY DEF StalledSettled
<1>0. gen \in Generations /\ stalled \in SUBSET Uploads
  BY DEF TypeOK
<1>1. ASSUME NEW g \in Generations, NEW u \in Uploads, AttemptStep(g, u) \/ AttemptThrows(g, u)
      PROVE  att'[gen'][v] = "none"
  <2>1. CASE v \in stalled
    <3>1. att[gen][v] = "none" /\ ~(g = gen /\ u = v)
      BY <1>1, <2>1, AttemptMoves DEF StalledSettled
    <3> QED BY <1>0, <1>1, <2>1, <3>1, AttemptMoves
  <2>2. CASE v \notin stalled
    <3>1. Settle(g, u) /\ g = gen /\ v = u
      BY <1>1, <2>2, AttemptMemory
    <3> QED BY <1>1, <3>1, AttemptMoves
  <2> QED BY <2>1, <2>2
<1>2. ASSUME NEW c \in Callers, Launch(c)
      PROVE  att'[gen'][v] = "none"
  <2>1. stalled' = stalled /\ v \notin Chosen(fetched) /\ v \in Uploads
    BY <1>0, <1>2, ChosenFits DEF Launch
  <2> QED BY <1>0, <1>2, <2>1, LaunchBatch DEF StalledSettled
<1>3. ASSUME NEW c \in Callers, CheckOnline(c) \/ GetPending(c)
      PROVE  att'[gen'][v] = "none"
  BY <1>3 DEF CheckOnline, GetPending, StalledSettled
<1>4. ASSUME NEW c \in Callers, EndPass(c) \/ PassFault(c)
      PROVE  FALSE
  BY <1>4 DEF EndPass, PassFault
<1>5. ASSUME NEW u \in Uploads, Enqueue(u) \/ Park(u) \/ Unpark(u)
      PROVE  att'[gen'][v] = "none"
  BY <1>5, UserRows DEF StalledSettled
<1>6. CASE Aside
  BY <1>6 DEF Aside, StalledSettled
<1> QED BY <1>1, <1>2, <1>3, <1>4, <1>5, <1>6, AsideSteps DEF Next, CallStep

Spent(u) ==
    \/ att[gen][u] \in {"busy", "release"} /\ Owns(gen, u)
    \/ att[gen][u] = "pending"
    \/ att[gen][u] \notin {"busy", "release"} /\ rows[u].status = "parked"
    \/ u \in stalled

(* An attempt leaves its upload spent if it was, or claims it.             *)
LEMMA SpentStep ==
    ASSUME TypeOK, StalledSettled, NEW g \in Generations, NEW u \in Uploads,
           AttemptStep(g, u) \/ AttemptThrows(g, u),
           Spent(u) \/ (g = gen /\ Marks(g, u))
    PROVE  Spent(u)'
<1>0. /\ rows \in [Uploads -> Row] /\ att \in [Generations -> [Uploads -> AttemptPhase]]
      /\ gen \in Generations /\ gen' = gen /\ gen # NULL
  BY AttemptMoves, WakeAssumption DEF TypeOK, Generations, WakeAssumption
<1>1. stalled \subseteq stalled'
  BY AttemptMemory
<1>2. CASE g # gen
  <2>1. att'[gen][u] = att[gen][u] /\ Spent(u)
    BY <1>0, <1>2, AttemptMoves
  <2>2. CASE rows'[u] = rows[u]
    BY <1>0, <1>1, <2>1, <2>2 DEF Spent, Owns
  <2>3. CASE rows'[u] # rows[u]
    <3>1. Due(u) \/ Owns(g, u)
      BY <2>3, AttemptRow
    <3>2. att[gen][u] = "pending" \/ u \in stalled
      BY <1>2, <2>1, <3>1 DEF Due, Owns, Spent
    <3> QED BY <1>0, <1>1, <2>1, <3>2 DEF Spent
  <2> QED BY <2>2, <2>3
<1>3. CASE g = gen
  <2>0. u \notin stalled
    BY <1>3, AttemptMoves DEF StalledSettled
  <2>1. CASE Claim(g, u)
    <3>0. att[gen][u] = "claim" /\ Spent(u) => rows[u].status = "parked"
      BY <2>0 DEF Spent
    <3>1. CASE Due(u)
      BY <1>0, <1>3, <2>1, <3>1 DEF Claim, Mark, AttemptGoto, Spent, Owns
    <3>2. CASE ~Due(u)
      BY <1>0, <1>3, <2>1, <3>0, <3>2 DEF Claim, AttemptGoto, Spent, Marks
    <3> QED BY <3>1, <3>2
  <2>2. CASE Finish(g, u) \/ Release(g, u)
    <3>1. att[gen][u] \in {"busy", "release"} /\ Owns(g, u)
      BY <1>3, <2>0, <2>2 DEF Finish, Release, Spent, Marks
    <3>2. Ends(g, u, Parked, "other") \/ \E at : Ends(g, u, PendingAt(at), "pending")
      BY <2>2, <3>1 DEF Finish, Release
    <3>3. CASE Ends(g, u, Parked, "other")
      BY <1>0, <1>3, <3>3 DEF Ends, AttemptGoto, Parked, Spent
    <3>4. CASE \E at : Ends(g, u, PendingAt(at), "pending")
      BY <1>0, <1>3, <3>4 DEF Ends, AttemptGoto, Spent
    <3> QED BY <3>2, <3>3, <3>4
  <2>3. CASE ReadStatus(g, u)
    <3>1. rows[u].status = "parked"
      BY <1>3, <2>0, <2>3 DEF ReadStatus, Spent, Marks
    <3> QED BY <1>0, <1>3, <2>3, <3>1 DEF ReadStatus, Reports, AttemptGoto, Spent, table
  <2>4. CASE Settle(g, u)
    <3>1. CASE att[g][u] = "pending"
      BY <1>0, <1>3, <2>4, <3>1 DEF Settle, Spent
    <3>2. CASE att[g][u] = "other"
      BY <1>0, <1>3, <2>0, <2>4, <3>2 DEF Settle, AttemptGoto, Spent, table, Marks
    <3> QED BY <2>4, <3>1, <3>2 DEF Settle
  <2>5. CASE Interrupt(g, u) \/ AttemptFault(g, u)
    <3>1. att[gen][u] = "busy" /\ Owns(gen, u)
      BY <1>3, <2>0, <2>5 DEF Interrupt, AttemptFault, Spent, Marks
    <3>2. rows'[u] = rows[u] /\ att'[gen][u] = "release"
      BY <1>0, <1>3, <2>5 DEF Interrupt, AttemptFault, AttemptGoto, table
    <3> QED BY <1>0, <3>1, <3>2 DEF Spent, Owns
  <2>6. CASE ClaimFault(g, u) \/ ReadFault(g, u) \/ ReleaseFault(g, u)
    BY <1>0, <1>3, <2>6 DEF ClaimFault, ReadFault, ReleaseFault, AttemptGoto, Spent
  <2> QED BY <2>1, <2>2, <2>3, <2>4, <2>5, <2>6 DEF AttemptStep, AttemptThrows
<1> QED BY <1>2, <1>3

(* What a pass has claimed stays spent, until the user moves it.           *)
LEMMA TakenSpentStep ==
    ASSUME TypeOK, PassCap, StalledSettled, TakenSpent, [Next]_vars
    PROVE  TakenSpent'
<1> SUFFICES ASSUME NEW v \in taken'
             PROVE  Spent(v)'
  BY DEF TakenSpent, Spent, Owns
<1>0. gen \in Generations /\ taken \in SUBSET Uploads /\ \A u \in taken : Spent(u)
  BY DEF TypeOK, TakenSpent, Spent, Owns
<1>1. ASSUME NEW g \in Generations, NEW u \in Uploads, AttemptStep(g, u) \/ AttemptThrows(g, u)
      PROVE  Spent(v)'
  <2>1. CASE v = u
    <3>1. Spent(u) \/ (g = gen /\ Marks(g, u))
      BY <1>0, <1>1, <2>1, AttemptMemory
    <3> QED BY <1>1, <2>1, <3>1, SpentStep
  <2>2. CASE v # u
    <3>1. v \in taken /\ stalled \subseteq stalled' /\ gen' = gen
      <4>1. taken' \subseteq taken \cup {u}
        BY <1>1, AttemptMemory
      <4>2. stalled \subseteq stalled'
        BY <1>1, AttemptMemory
      <4> QED BY <1>1, <2>2, <4>1, <4>2, AttemptMoves
    <3>2. rows'[v] = rows[v]
      BY <1>0, <1>1, <2>2, <3>1, OtherRows
    <3>3. att'[gen][v] = att[gen][v]
      BY <1>0, <1>1, <2>2, <3>1, AttemptMoves
    <3> QED BY <1>0, <3>1, <3>2, <3>3 DEF Spent, Owns
  <2> QED BY <2>1, <2>2
<1>2. ASSUME NEW c \in Callers, Launch(c)
      PROVE  Spent(v)'
  <2>1. v \in taken /\ v \in Uploads /\ UNCHANGED <<rows, gen, stalled>>
    BY <1>0, <1>2 DEF Launch, table
  <2>2. CASE v \notin Chosen(fetched)
    BY <1>0, <1>2, <2>1, <2>2, LaunchBatch DEF Spent, Owns
  <2>3. CASE v \in Chosen(fetched)
    <3>1. v \notin stalled /\ att[gen][v] = "none"
      BY <2>1, <2>3, ChosenFits DEF Batch
    <3>2. att'[gen][v] = "claim"
      BY <1>0, <1>2, <2>1, <2>3, LaunchBatch
    <3> QED BY <1>0, <2>1, <3>1, <3>2 DEF Spent, Owns
  <2> QED BY <2>2, <2>3
<1>3. ASSUME NEW c \in Callers, CheckOnline(c) \/ GetPending(c)
      PROVE  Spent(v)'
  BY <1>0, <1>3 DEF CheckOnline, GetPending, Spent, Owns, table
<1>4. ASSUME NEW c \in Callers, EndPass(c) \/ PassFault(c)
      PROVE  FALSE
  BY <1>4 DEF EndPass, PassFault
<1>5. ASSUME NEW u \in Uploads, Enqueue(u) \/ Park(u) \/ Unpark(u)
      PROVE  Spent(v)'
  <2>1. v \in taken /\ UNCHANGED <<gen, att, stalled>>
    BY <1>5, UserRows
  <2>2. CASE v # u
    BY <1>0, <1>5, <2>1, <2>2, UserRows DEF Spent, Owns
  <2>3. CASE v = u
    <3>1. rows[v].status = "none"
      BY <1>5, <2>3, UserRows
    <3>2. att[gen][v] = "pending" \/ v \in stalled
      BY <1>0, <2>1, <3>1 DEF Spent, Owns
    <3> QED BY <2>1, <3>2 DEF Spent, Owns
  <2> QED BY <2>2, <2>3
<1>6. CASE Aside
  BY <1>0, <1>6 DEF Aside, Spent, Owns
<1> QED BY <1>1, <1>2, <1>3, <1>4, <1>5, <1>6, AsideSteps DEF Next, CallStep

(* The rows asked for at one time are those free and those stalled then.   *)
LEMMA LimitStandsStep ==
    ASSUME TypeOK, SingleFlight, PassCap, LimitStands, [Next]_vars
    PROVE  LimitStands'
<1> SUFFICES ASSUME NEW c \in Callers, calls'[c].pc = "fetch", ~overtaken'
             PROVE  limit' = Concurrency - Cardinality(Batch(gen)') + Cardinality(stalled')
  <2>1. InFlight' = Batch(gen)'
    BY DEF InFlight, Batch
  <2> QED BY <2>1, Zenon DEF LimitStands
<1>0. gen \in Generations /\ overtaken \in BOOLEAN
  BY DEF TypeOK
<1>1. ASSUME calls[c].pc = "fetch", overtaken' = overtaken, limit' = limit,
             Batch(gen)' = Batch(gen), stalled' = stalled
      PROVE  limit' = Concurrency - Cardinality(Batch(gen)') + Cardinality(stalled')
  BY <1>1 DEF LimitStands, InFlight, Batch
<1>2. ASSUME NEW g \in Generations, NEW u \in Uploads, AttemptStep(g, u) \/ AttemptThrows(g, u)
      PROVE  limit' = Concurrency - Cardinality(Batch(gen)') + Cardinality(stalled')
  <2>1. calls' = calls /\ limit' = limit /\ gen' = gen
    BY <1>2, AttemptMoves, AttemptMemory
  <2>2. ~(Settle(g, u) /\ g = gen)
    BY <1>2, AttemptMemory
  <2>3. overtaken' = overtaken
    <3>1. CASE Settle(g, u)
      BY <1>0, <2>2, <3>1 DEF Settle
    <3>2. CASE ~Settle(g, u)
      BY <1>2, <3>2, AttemptMemory
    <3> QED BY <3>1, <3>2
  <2>4. stalled' = stalled
    BY <1>2, <2>2, AttemptMemory
  <2>5. Batch(gen)' = Batch(gen)
    <3>1. \A v \in Uploads : att'[gen][v] = "none" <=> att[gen][v] = "none"
      BY <1>0, <1>2, <2>2, AttemptMoves
    <3> QED BY <2>1, <3>1 DEF Batch
  <2> QED BY <1>1, <2>1, <2>3, <2>4, <2>5
<1>3. ASSUME NEW d \in Callers, Launch(d)
      PROVE  limit' = Concurrency - Cardinality(Batch(gen)') + Cardinality(stalled')
  <2>1. c = d
    <3>1. calls[d].pc \in Holding /\ calls[d].pc # "fetch"
      BY <1>3 DEF Launch, Holding, Looping
    <3>2. \E pc \in Phase : Goto(d, pc)
      BY <1>3, CallStepMoves DEF CallStep, Moves
    <3>3. c # d => calls[c].pc = "fetch"
      BY <3>2, OthersStay
    <3> QED BY <3>1, <3>3 DEF SingleFlight, Holding, Looping
  <2>2. \A inFlight : ~Rest(c, inFlight)
    <3>1. calls[c].pc = "fetched"
      BY <1>3, <2>1 DEF Launch
    <3>2. \A pc \in {"race", "loopOnline", "all"} : ~Goto(c, pc)
      BY OthersStay DEF Phase, Holding, Looping
    <3> QED BY <3>1, <3>2, RestMoves
  <2>3. Chosen(fetched) # {} /\ Fill(c, InFlight \cup Chosen(fetched))
    BY <1>3, <2>1, <2>2 DEF Launch
  <2>4. limit' = Concurrency - Cardinality(InFlight \cup Chosen(fetched)) + Cardinality(stalled)
    BY <2>2, <2>3 DEF Fill
  <2>5. Batch(gen)' = InFlight \cup Chosen(fetched) /\ stalled' = stalled
    BY <1>3, LaunchBatch DEF Launch, InFlight, Batch
  <2> QED BY <2>4, <2>5
<1>4. ASSUME NEW d \in Callers, CheckOnline(d)
      PROVE  limit' = Concurrency - Cardinality(Batch(gen)') + Cardinality(stalled')
  <2>1. c = d
    <3>1. calls[d].pc \in Holding /\ calls[d].pc # "fetch"
      BY <1>4 DEF CheckOnline, Holding, Looping
    <3>2. \E pc \in Phase : Goto(d, pc)
      BY <1>4, CallStepMoves DEF CallStep, Moves
    <3>3. c # d => calls[c].pc = "fetch"
      BY <3>2, OthersStay
    <3> QED BY <3>1, <3>3 DEF SingleFlight, Holding, Looping
  <2>2. \A pc \in {"race", "loopOnline", "all"} : ~Goto(c, pc)
    BY OthersStay DEF Phase, Holding, Looping
  <2>3. Fill(c, InFlight) /\ ~Rest(c, InFlight)
    BY <1>4, <2>1, <2>2, RestMoves DEF CheckOnline
  <2>4. limit' = Concurrency - Cardinality(InFlight) + Cardinality(stalled)
    BY <2>3 DEF Fill
  <2>5. Batch(gen)' = InFlight /\ stalled' = stalled
    BY <1>4 DEF CheckOnline, InFlight, Batch
  <2> QED BY <2>4, <2>5
<1>5. ASSUME NEW d \in Callers, GetPending(d) \/ EndPass(d) \/ PassFault(d)
      PROVE  FALSE
  <2>1. calls[d].pc \in Holding /\ \E pc \in {"fetched", "unlock", "rejected"} : Goto(d, pc)
    BY <1>5 DEF GetPending, EndPass, PassFault, Holding, Looping
  <2>2. calls'[d].pc # "fetch" /\ (c # d => calls[c].pc = "fetch")
    BY <2>1, OthersStay DEF Phase, Holding, Looping
  <2> QED BY <2>1, <2>2 DEF SingleFlight, Holding, Looping
<1>6. ASSUME NEW u \in Uploads, Enqueue(u) \/ Park(u) \/ Unpark(u)
      PROVE  limit' = Concurrency - Cardinality(Batch(gen)') + Cardinality(stalled')
  <2>1. calls[c].pc = "fetch"
    <3>1. UNCHANGED calls \/ \E d \in Callers : Called(d)
      BY <1>6 DEF Enqueue, Park, Unpark, TriggerIfStarted, Call, Called
    <3> QED BY <3>1 DEF Called, TypeOK
  <2>2. UNCHANGED <<gen, att, stalled, limit, overtaken>>
    BY <1>6, UserRows
  <2> QED BY <1>1, <2>1, <2>2 DEF Batch
<1>7. CASE Aside
  BY <1>1, <1>7 DEF Aside, Batch
<1> QED BY <1>2, <1>3, <1>4, <1>5, <1>6, <1>7, AsideSteps DEF Next, CallStep

-----------------------------------------------------------------------------
(* The inductive invariant                                                 *)

(* A queue that has done nothing satisfies it.                             *)
LEMMA InitInv == Init => IInv
<1> SUFFICES ASSUME Init PROVE IInv
  OBVIOUS
<1>1. TypeOK
  <2>1. rows \in [Uploads -> Row]
    BY DEF Init, Row
  <2>2. calls \in [Callers -> [pc: Phase, wakes: BOOLEAN]]
    BY DEF Init, Phase
  <2>3. gen \in Generations /\ att \in [Generations -> [Uploads -> AttemptPhase]]
    BY RunnerAssumption DEF Init, Generations, AttemptPhase, RunnerAssumption
  <2>4. online \in BOOLEAN
    BY DEF Init
  <2>5. stop \in [on: BOOLEAN, waits: SUBSET (Generations \X Uploads)]
    BY DEF Init
  <2>6. used \in [calls: Nat, outages: Nat, retries: Nat, faults: Nat]
    BY DEF Init
  <2>7. WakeType
    BY DEF Init, WakeInit, WakeType
  <2>8. /\ now \in Nat /\ started \in BOOLEAN /\ shuttingDown \in BOOLEAN
        /\ running \in BOOLEAN /\ rerun \in BOOLEAN /\ overtaken \in BOOLEAN /\ limit \in Nat
        /\ stalled \in SUBSET Uploads /\ taken \in SUBSET Uploads
        /\ fetched \in SUBSET Uploads /\ raced \in SUBSET Uploads
    BY DEF Init
  <2> QED BY <2>1, <2>2, <2>3, <2>4, <2>5, <2>6, <2>7, <2>8 DEF TypeOK
<1>2. \A g \in Generations : Batch(g) = {}
  BY DEF Init, Batch
<1>3. PassCap
  BY <1>2, FS_EmptySet, RunnerAssumption DEF PassCap, RunnerAssumption
<1>4. BatchesCounted /\ BatchDrained
  BY <1>1, <1>2, RunnerAssumption DEF Init, BatchesCounted, BatchDrained, RunnerAssumption, TypeOK
<1>5. SingleFlight /\ TakenSpent /\ StalledSettled /\ LimitStands
  BY DEF Init, SingleFlight, TakenSpent, StalledSettled, LimitStands, Holding, Looping
<1>6. ClaimsAttended
  <2>1. Unattended = {} /\ used.faults = 0 /\ gen = 0
    BY DEF Init, Unattended
  <2> QED BY <2>1, FS_EmptySet DEF ClaimsAttended
<1> QED BY <1>1, <1>3, <1>4, <1>5, <1>6 DEF IInv

(* Every step keeps it.                                                    *)
LEMMA NextInv == IInv /\ [Next]_vars => IInv'
BY NextType, SingleFlightStep, BatchesCountedStep, BatchDrainedStep, PassCapStep,
   ClaimsAttendedStep, TakenSpentStep, StalledSettledStep, LimitStandsStep DEF IInv

(* The inductive invariant holds in every reachable state, for any number  *)
(* of passes, claims, reads, attempts and releases that throw.             *)
THEOREM Invariant == Spec => []IInv
BY InitInv, NextInv, PTL DEF Spec

(* Every variable keeps its type; in particular no step, however many      *)
(* passes failed, leaves a batch without a number.                         *)
THEOREM TypeCorrect == Spec => []TypeOK
<1>1. IInv => TypeOK
  BY DEF IInv
<1> QED BY <1>1, Invariant, PTL

(* process() is single-flight: at most one call is inside a pass, and the  *)
(* lock is taken exactly while one is, whatever throws.                    *)
THEOREM OnePassAtATime == Spec => []SingleFlight
<1>1. IInv => SingleFlight
  BY DEF IInv
<1> QED BY <1>1, Invariant, PTL

(* A claim that no attempt will let go of has cost a fault of its own: a   *)
(* SELECT of claim() that threw after its UPDATE, or a failed release.     *)
(* stop(), a lost network, the commands of the user and the passes that    *)
(* are rejected with attempts in flight abandon none, however they meet.   *)
THEOREM EveryClaimAttended == Spec => []ClaimsAttended
<1>1. IInv => ClaimsAttended
  BY DEF IInv
<1> QED BY <1>1, Invariant, PTL

(* Where nothing throws, the uploads in flight never exceed                *)
(* concurrencyLimit, over all passes of the instance.                      *)
THEOREM ConcurrencyIsHardCap == ASSUME MaxFaults = 0 PROVE Spec => []HardCap
<1>1. IInv => HardCap
  <2> SUFFICES ASSUME IInv PROVE HardCap
    OBVIOUS
  <2> DEFINE T == {x \in Generations \X Uploads : att[x[1]][x[2]] # "none"}
             f == [u \in Batch(0) |-> <<0, u>>]
  <2>1. Generations = {0}
    BY DEF Generations
  <2>2. Batch(0) \in SUBSET Uploads /\ Cardinality(Batch(0)) <= Concurrency
    BY <2>1 DEF IInv, PassCap, Batch
  <2>3. f \in Bijection(Batch(0), T)
    <3>1. f \in [Batch(0) -> T] /\ \A u, v \in Batch(0) : f[u] = f[v] => u = v
      BY <2>1 DEF Batch
    <3>2. \A x \in T : \E u \in Batch(0) : f[u] = x
      BY <2>1 DEF Batch
    <3> QED BY <3>1, <3>2 DEF Bijection, Injection, IsInjective, Surjection
  <2>4. Cardinality(T) = Cardinality(Batch(0))
    BY <2>2, <2>3, UploadSets, FS_Bijection DEF ExistsBijection
  <2> QED BY <2>2, <2>4 DEF HardCap
<1> QED BY <1>1, Invariant, PTL

(* A pass that is rejected leaves at most one batch behind: the uploads in *)
(* flight never exceed concurrencyLimit times the passes that can have     *)
(* left one, the present one included.                                     *)
THEOREM CapPerRejection ==
    Spec => [](Cardinality({x \in Generations \X Uploads : att[x[1]][x[2]] # "none"})
                  <= Concurrency * (gen + 1))
<1> DEFINE Upto(n) == {x \in Generations \X Uploads : x[1] <= n /\ att[x[1]][x[2]] # "none"}
           Fine == {n \in Nat : IsFiniteSet(Upto(n)) /\ Cardinality(Upto(n)) <= Concurrency * (n + 1)}
           T == {x \in Generations \X Uploads : att[x[1]][x[2]] # "none"}
<1>1. ASSUME IInv PROVE Cardinality(T) <= Concurrency * (gen + 1)
  <2>0. Generations \subseteq Nat /\ Concurrency \in Nat
    BY RunnerAssumption DEF Generations, RunnerAssumption
  <2>1. \A x \in Generations \X Uploads : x[1] \in Nat
    BY <2>0
  <2>2. \A g \in Nat : LET S == {x \in Generations \X Uploads : x[1] = g /\ att[x[1]][x[2]] # "none"}
                       IN  IsFiniteSet(S) /\ Cardinality(S) <= Concurrency
    <3> SUFFICES ASSUME NEW g \in Nat
                 PROVE  LET S == {x \in Generations \X Uploads : x[1] = g /\ att[x[1]][x[2]] # "none"}
                        IN  IsFiniteSet(S) /\ Cardinality(S) <= Concurrency
      OBVIOUS
    <3> DEFINE S == {x \in Generations \X Uploads : x[1] = g /\ att[x[1]][x[2]] # "none"}
               f == [u \in Batch(g) |-> <<g, u>>]
    <3>1. CASE g \notin Generations
      <4>1. S = {}
        BY <3>1
      <4> QED BY <2>0, <4>1, FS_EmptySet
    <3>2. CASE g \in Generations
      <4>1. Batch(g) \in SUBSET Uploads /\ Cardinality(Batch(g)) <= Concurrency
        BY <1>1, <3>2 DEF IInv, PassCap, Batch
      <4>2. f \in Bijection(Batch(g), S)
        <5>1. f \in [Batch(g) -> S] /\ \A u, v \in Batch(g) : f[u] = f[v] => u = v
          BY <3>2 DEF Batch
        <5>2. \A x \in S : \E u \in Batch(g) : f[u] = x
          BY <3>2 DEF Batch
        <5> QED BY <5>1, <5>2 DEF Bijection, Injection, IsInjective, Surjection
      <4> HIDE DEF S, f
      <4>3. IsFiniteSet(S) /\ Cardinality(S) = Cardinality(Batch(g))
        BY <4>1, <4>2, UploadSets, FS_Bijection DEF ExistsBijection
      <4>4. IsFiniteSet(S) /\ Cardinality(S) <= Concurrency
        BY <4>1, <4>3
      <4> QED BY <4>4 DEF S
    <3> QED BY <3>1, <3>2
  <2>3. 0 \in Fine
    <3>1. Upto(0) = {x \in Generations \X Uploads : x[1] = 0 /\ att[x[1]][x[2]] # "none"}
      <4>1. \A x \in Generations \X Uploads : x[1] <= 0 <=> x[1] = 0
        BY <2>1
      <4> QED BY <4>1
    <3>2. Concurrency * (0 + 1) = Concurrency
      BY <2>0
    <3> QED BY <2>2, <3>1, <3>2
  <2>4. ASSUME NEW n \in Nat, n \in Fine PROVE n + 1 \in Fine
    <3> DEFINE S == {x \in Generations \X Uploads : x[1] = n + 1 /\ att[x[1]][x[2]] # "none"}
    <3>1. Upto(n + 1) = Upto(n) \cup S /\ Upto(n) \cap S = {}
      <4>1. \A x \in Generations \X Uploads :
               (x[1] <= n + 1 <=> x[1] <= n \/ x[1] = n + 1) /\ ~(x[1] <= n /\ x[1] = n + 1)
        BY <2>1
      <4> QED BY <4>1
    <3>2. IsFiniteSet(Upto(n)) /\ Cardinality(Upto(n)) <= Concurrency * (n + 1)
      BY <2>4
    <3>3. IsFiniteSet(S) /\ Cardinality(S) <= Concurrency
      BY <2>2
    <3> HIDE DEF Upto, S
    <3>4. IsFiniteSet(Upto(n + 1)) /\ Cardinality(Upto(n + 1)) = Cardinality(Upto(n)) + Cardinality(S) - 0
      BY <3>1, <3>2, <3>3, FS_Union, FS_EmptySet
    <3>5. Cardinality(Upto(n)) \in Nat /\ Cardinality(S) \in Nat
      BY <3>2, <3>3, FS_CardinalityType
    <3>6. Concurrency * ((n + 1) + 1) = Concurrency * (n + 1) + Concurrency
      BY <2>0
    <3>7. Concurrency * (n + 1) \in Nat
      BY <2>0
    <3>8. Cardinality(Upto(n + 1)) <= Concurrency * ((n + 1) + 1)
      BY <2>0, <3>2, <3>3, <3>4, <3>5, <3>6, <3>7
    <3> QED BY <3>4, <3>8
  <2>5. Nat \subseteq Fine
    <3> HIDE DEF Fine
    <3> QED BY <2>3, <2>4, SetInduction
  <2>6. gen \in Nat /\ \A g \in Generations : Batch(g) # {} => g <= gen
    BY <1>1, <2>0 DEF IInv, BatchesCounted, TypeOK
  <2>7. T = Upto(gen)
    BY <2>6 DEF Batch
  <2> QED BY <2>5, <2>6, <2>7
<1> QED BY <1>1, Invariant, PTL

(* A pass marks no upload as its own a second time, unless the user moved  *)
(* it, even where claim() throws after its UPDATE or a release fails.      *)
THEOREM ClaimedOncePerPass == Spec => OncePerPass
<1>1. IInv /\ [Next]_vars =>
        [\A u \in Uploads :
            ~Owns(gen, u) /\ Owns(gen, u)' /\ gen' = gen => u \notin taken]_vars
  <2> SUFFICES ASSUME IInv, [Next]_vars, NEW u \in Uploads,
                      ~Owns(gen, u), Owns(gen, u)', gen' = gen, u \in taken
               PROVE  FALSE
    OBVIOUS
  <2>0. TypeOK /\ PassCap /\ gen \in Generations /\ Spent(u)
    BY DEF IInv, TypeOK, TakenSpent, Spent
  <2>1. rows'[u] # rows[u] /\ rows'[u].status = "uploading" /\ rows'[u].by = gen
    BY DEF Owns
  <2>2. PICK g \in Generations, v \in Uploads : AttemptStep(g, v) \/ AttemptThrows(g, v)
    <3>1. ASSUME NEW v \in Uploads, Enqueue(v) \/ Park(v) \/ Unpark(v)
          PROVE  rows'[u] = rows[u] \/ rows'[u].status # "uploading"
      BY <2>0, <3>1, UserRows
    <3>2. ASSUME NEW c \in Callers,
                 CheckOnline(c) \/ GetPending(c) \/ Launch(c) \/ EndPass(c) \/ PassFault(c)
          PROVE  rows' = rows
      BY <3>2 DEF CheckOnline, GetPending, Launch, EndPass, PassFault, table
    <3>3. Aside => rows' = rows
      BY DEF Aside
    <3> QED BY <2>0, <2>1, <3>1, <3>2, <3>3, AsideSteps DEF Next, CallStep
  <2>3. v = u
    BY <2>0, <2>1, <2>2, OtherRows
  <2>4. ~(rows'[u] = Parked \/ rows'[u].status = "pending")
    BY <2>1 DEF Parked
  <2>5. /\ att[g][u] = "claim" /\ Due(u)
        /\ rows'[u] = [status |-> "uploading", at |-> NULL, by |-> g]
    BY <2>0, <2>1, <2>2, <2>3, <2>4, AttemptRow
  <2>6. g = gen
    BY <2>1, <2>5
  <2>7. u \in stalled
    BY <2>0, <2>5, <2>6 DEF Spent, Due
  <2> QED BY <2>5, <2>6, <2>7 DEF IInv, StalledSettled
<1> QED BY <1>1, Invariant, PTL DEF Spec, OncePerPass

(* A pass that finds nothing to launch and has nothing in flight has       *)
(* overlooked nothing that is due, if nothing settled while it asked.      *)
THEOREM NobodyHidden == Spec => StalledHideNobody
<1>1. IInv /\ [Next]_vars =>
        [\A c \in Callers :
            (/\ calls[c].pc = "fetch" /\ calls'[c].pc = "fetched"
             /\ InFlight = {} /\ fetched' \subseteq stalled /\ ~overtaken)
            => \A u \in Uploads : Due(u) => u \in stalled]_vars
  <2> SUFFICES ASSUME IInv, [Next]_vars, NEW c \in Callers,
                      calls[c].pc = "fetch", calls'[c].pc = "fetched",
                      InFlight = {}, fetched' \subseteq stalled, ~overtaken,
                      NEW u \in Uploads, Due(u)
               PROVE  u \in stalled
    OBVIOUS
  <2> DEFINE D == {v \in Uploads : Due(v)}
  <2>0. /\ TypeOK /\ stalled \in SUBSET Uploads /\ limit \in Nat /\ Concurrency \in Nat \ {0}
        /\ D \in SUBSET Nat /\ IsFiniteSet(D) /\ Cardinality(stalled) \in Nat
        /\ IsFiniteSet(stalled)
    BY UploadSets, RunnerAssumption DEF IInv, TypeOK, RunnerAssumption
  <2>1. limit = Concurrency - Cardinality(InFlight) + Cardinality(stalled)
    BY DEF IInv, LimitStands
  <2>2. limit = Concurrency + Cardinality(stalled)
    BY <2>0, <2>1, FS_EmptySet
  <2>3. GetPending(c)
    <3>1. ~UNCHANGED calls /\ ~\E d \in Callers : Called(d) \/ (Goto(d, "rejected") /\ PassFault(d))
      BY <2>0, OthersStay DEF Called, TypeOK, Phase, Holding
    <3>2. PICK d \in Callers : Moves(d) /\ CallStep(d)
      BY <2>0, <3>1, CallsMove DEF TypeOK
    <3>3. d = c
      BY <2>0, <3>2, OthersStay DEF Moves
    <3> QED BY <3>2, <3>3 DEF CallStep, Enter, Unlock, Recheck, Reject, BeginPass, CheckOnline,
                              Launch, RaceWon, EndPass, ScheduleWake, ArmTimer
  <2>4. fetched' = First(D, limit)
    BY <2>3 DEF GetPending
  <2>5. Cardinality(fetched') <= Cardinality(stalled)
    BY <2>0, FS_Subset
  <2>6. Cardinality(fetched') \in Nat
    BY <2>0, FS_Subset, FS_CardinalityType
  <2>7. Cardinality(fetched') < limit
    BY <2>0, <2>2, <2>5, <2>6
  <2>8. fetched' = D
    <3> HIDE DEF D
    <3> QED BY <2>0, <2>4, <2>7, FirstSize
  <2> QED BY <2>8
<1> QED BY <1>1, Invariant, PTL DEF Spec, StalledHideNobody

-----------------------------------------------------------------------------
(* Every scheduled retry has its timer                                     *)

QuietQueue == MaxFaults = 0 /\ "process" \notin AppCalls

(* Of a step where every call wakes: no call is started that does not, and *)
(* the queue comes to rest through ArmTimer, or through a scheduleWake()   *)
(* that found it stopped.                                                  *)
LEMMA WakefulCalls ==
    ASSUME QuietQueue, TypeOK, BatchesCounted, [Next]_vars,
           \A c \in Callers : calls[c].pc # "idle" => calls[c].wakes /\ calls[c].pc # "rejected"
    PROVE  /\ \A c \in Callers : calls'[c].pc # "idle" => calls'[c].wakes /\ calls'[c].pc # "rejected"
           /\ \A c \in Callers : calls[c].pc # "idle" /\ calls'[c].pc = "idle" =>
                 ArmTimer(c) \/ (ScheduleWake(c) /\ ~started)
<1>0. /\ calls \in [Callers -> [pc: Phase, wakes: BOOLEAN]]
      /\ \A c \in Callers : ~PassFault(c)
  BY RunnerAssumption DEF TypeOK, QuietQueue, PassFault, BatchesCounted, RunnerAssumption
<1>1. CASE UNCHANGED calls
  BY <1>1
<1>2. ASSUME NEW c \in Callers, Moves(c), CallStep(c)
      PROVE  /\ \A d \in Callers : calls'[d].pc # "idle" => calls'[d].wakes /\ calls'[d].pc # "rejected"
             /\ \A d \in Callers : calls[d].pc # "idle" /\ calls'[d].pc = "idle" =>
                   ArmTimer(d) \/ (ScheduleWake(d) /\ ~started)
  <2>1. PICK pc \in Phase : <<calls[c].pc, pc>> \in CallGraph /\ Goto(c, pc)
    BY <1>2 DEF Moves
  <2>2. /\ calls[c].pc # "idle" /\ pc # "rejected"
        /\ calls'[c].pc = pc /\ calls'[c].wakes = calls[c].wakes
        /\ \A d \in Callers : d # c => calls'[d] = calls[d]
    BY <1>0, <2>1 DEF CallGraph, Goto
  <2>3. pc = "idle" => ArmTimer(c) \/ (ScheduleWake(c) /\ ~started)
    <3> SUFFICES ASSUME pc = "idle", ~ArmTimer(c) PROVE ScheduleWake(c) /\ ~started
      OBVIOUS
    <3>1. calls'[c].pc = "idle" /\ calls[c].wakes /\ calls[c].pc # "rejected"
      BY <2>2
    <3>2. /\ ~Goto(c, "wake") /\ ~Goto(c, "isOnline") /\ ~Goto(c, "query")
          /\ ~Goto(c, "recheck") /\ ~Goto(c, "unlock") /\ ~Goto(c, "all")
          /\ ~Goto(c, "loopOnline") /\ ~Goto(c, "fetched") /\ ~Goto(c, "fetch")
          /\ ~Goto(c, "race")
      BY <1>0, <3>1 DEF Goto
    <3>3. ~Enter(c) /\ ~Recheck(c)
      BY <3>1, <3>2 DEF Enter, Recheck, EnterPass, Return
    <3>4. ~Unlock(c) /\ ~Reject(c) /\ ~BeginPass(c) /\ ~GetPending(c) /\ ~RaceWon(c) /\ ~EndPass(c)
      BY <3>1, <3>2 DEF Unlock, Reject, BeginPass, GetPending, RaceWon, EndPass, Lap
    <3>5. ~CheckOnline(c) /\ ~Launch(c)
      BY <3>2 DEF CheckOnline, Launch, Fill, Rest, Lap
    <3>6. ScheduleWake(c)
      BY <1>2, <3>3, <3>4, <3>5 DEF CallStep
    <3> QED BY <3>2, <3>6 DEF ScheduleWake
  <2> QED BY <2>2, <2>3
<1>3. CASE ~UNCHANGED calls /\ \A c \in Callers : ~(Moves(c) /\ CallStep(c))
  <2>1. \A c \in Callers : ~CallStep(c)
    BY <1>3, CallStepMoves
  <2>2. ~Process
    BY DEF Process, AppCall, QuietQueue
  <2>3. Call(TRUE)
    <3>1. CASE \E g \in Generations, u \in Uploads : AttemptStep(g, u) \/ AttemptThrows(g, u)
      BY <1>3, <3>1, AttemptMoves
    <3>2. CASE Start \/ \E h \in Handles : Wake(h)
      BY <3>2 DEF Start, Wake
    <3>3. CASE \E u \in Uploads : Enqueue(u) \/ Park(u) \/ Unpark(u)
      BY <1>3, <3>3 DEF Enqueue, Park, Unpark, TriggerIfStarted
    <3>4. CASE StopBegin \/ StopEnd \/ Tick \/ GoOffline \/ GoOnline
      BY <1>3, <3>4 DEF StopBegin, StopEnd, Tick, GoOffline, GoOnline, TriggerIfStarted
    <3>5. CASE UNCHANGED vars
      BY <1>3, <3>5 DEF vars
    <3> QED BY <1>0, <2>1, <2>2, <3>1, <3>2, <3>3, <3>4, <3>5 DEF Next
  <2>4. PICK c \in Callers : calls' = [calls EXCEPT ![c] = [pc |-> "called", wakes |-> TRUE]]
    BY <2>3 DEF Call
  <2> QED BY <1>0, <2>4
<1> QED BY <1>1, <1>2, <1>3

(* A queue that is at rest and stays so schedules nothing and clears no    *)
(* timer while it is started.                                              *)
LEMMA RestStays ==
    ASSUME QuietQueue, IInv, WakeInv, [Next]_vars, started',
           \A c \in Callers : calls[c].pc = "idle" /\ calls'[c].pc = "idle"
    PROVE  /\ started
           /\ timers' = timers
           /\ \A u \in Uploads : rows'[u].status = "pending" /\ rows'[u].at # NULL => rows'[u] = rows[u]
<1>0. /\ TypeOK /\ Generations = {0} /\ gen \in Generations
      /\ calls \in [Callers -> [pc: Phase, wakes: BOOLEAN]]
      /\ rows \in [Uploads -> Row]
  BY DEF IInv, TypeOK, QuietQueue, Generations
<1>1. \A wakes \in BOOLEAN : ~Call(wakes)
  BY <1>0 DEF Call
<1>2. \A c \in Callers : ~CallStep(c) /\ ~PassFault(c)
  BY DEF CallStep, Enter, Unlock, Recheck, Reject, BeginPass, CheckOnline, GetPending, Launch,
         RaceWon, EndPass, ScheduleWake, ArmTimer, PassFault
<1>3. \A g \in Generations, u \in Uploads : ~(AttemptStep(g, u) \/ AttemptThrows(g, u))
  <2>1. Batch(gen) = {}
    BY DEF IInv, BatchDrained, Looping
  <2>2. \A g \in Generations, u \in Uploads : att[g][u] = "none"
    BY <1>0, <2>1 DEF Batch
  <2> QED BY <1>0, <2>2, AttemptMoves
<1>4. CASE StopEnd \/ Tick \/ GoOffline \/ GoOnline
  BY <1>4 DEF StopEnd, Tick, GoOffline, GoOnline, table, flags, wake
<1>5. CASE UNCHANGED vars
  BY <1>5 DEF vars, table, flags, wake
<1>6. ASSUME NEW v \in Uploads, Enqueue(v) \/ Park(v) \/ Unpark(v)
      PROVE  /\ started
             /\ timers' = timers
             /\ \A u \in Uploads : rows'[u].status = "pending" /\ rows'[u].at # NULL => rows'[u] = rows[u]
  <2>1. started /\ timers' = timers
    BY <1>6 DEF Enqueue, Park, Unpark, flags, wake
  <2>2. Park(v)
    BY <1>1, <1>6, <2>1 DEF Enqueue, Unpark, TriggerIfStarted
  <2>3. rows' = [rows EXCEPT ![v] = Parked]
    BY <2>2 DEF Park
  <2>4. rows'[v].status = "parked" /\ \A u \in Uploads : u # v => rows'[u] = rows[u]
    BY <1>0, <2>3 DEF Parked
  <2> QED BY <2>1, <2>4
<1>7. ~Start /\ ~Process /\ ~StopBegin /\ \A h \in Handles : ~Wake(h)
  BY <1>1 DEF Start, Process, StopBegin, Wake
<1> QED BY <1>2, <1>3, <1>4, <1>5, <1>6, <1>7 DEF Next

(* A row that is not pending has no retry time.                            *)
LEMMA RetryTimes ==
    ASSUME TypeOK, PassCap, [Next]_vars,
           \A u \in Uploads : rows[u].status # "pending" => rows[u].at = NULL
    PROVE  \A u \in Uploads : rows'[u].status # "pending" => rows'[u].at = NULL
<1> SUFFICES ASSUME NEW v \in Uploads, rows'[v].status # "pending"
             PROVE  rows'[v].at = NULL
  OBVIOUS
<1>0. rows \in [Uploads -> Row]
  BY DEF TypeOK
<1>1. ASSUME NEW g \in Generations, NEW u \in Uploads, AttemptStep(g, u) \/ AttemptThrows(g, u)
      PROVE  rows'[v].at = NULL
  <2>1. CASE v # u
    BY <1>1, <2>1, OtherRows
  <2>2. CASE v = u
    <3>1. CASE rows'[u] = rows[u]
      BY <2>2, <3>1
    <3>2. CASE rows'[u] = [status |-> "uploading", at |-> NULL, by |-> g]
      BY <2>2, <3>2
    <3>3. CASE rows'[u] = Parked
      BY <2>2, <3>3 DEF Parked
    <3> QED BY <1>1, <2>2, <3>1, <3>2, <3>3, AttemptRow, Zenon
  <2> QED BY <2>1, <2>2
<1>2. ASSUME NEW u \in Uploads, Enqueue(u) \/ Park(u) \/ Unpark(u)
      PROVE  rows'[v].at = NULL
  <2>1. CASE v # u
    BY <1>2, <2>1, UserRows
  <2>2. CASE v = u
    <3>1. CASE rows' = [rows EXCEPT ![u] = Parked]
      BY <1>0, <2>2, <3>1 DEF Parked
    <3>2. CASE rows' = [rows EXCEPT ![u].status = "pending"]
      BY <1>0, <2>2, <3>2
    <3> QED BY <1>2, <3>1, <3>2 DEF Enqueue, Park, Unpark
  <2> QED BY <2>1, <2>2
<1>3. CASE rows' = rows
  BY <1>3
<1>4. CASE \E c \in Callers : CallStep(c) \/ PassFault(c)
  BY <1>3, <1>4 DEF CallStep, Enter, Unlock, Recheck, Reject, BeginPass, CheckOnline, GetPending,
              Launch, RaceWon, EndPass, ScheduleWake, ArmTimer, PassFault, table
<1>5. CASE Start \/ Process \/ \E h \in Handles : Wake(h)
  BY <1>3, <1>5 DEF Start, Process, Wake, table
<1>6. CASE StopBegin \/ StopEnd \/ Tick \/ GoOffline \/ GoOnline \/ UNCHANGED vars
  BY <1>3, <1>6 DEF StopBegin, StopEnd, Tick, GoOffline, GoOnline, vars, table
<1> QED BY <1>1, <1>2, <1>4, <1>5, <1>6 DEF Next

(* The continuation of schedule() sets a timer for the earliest retry.     *)
LEMMA ArmedForAll ==
    ASSUME TypeOK, NEW c \in Callers, ArmTimer(c),
           NEW u \in Uploads, rows[u].status = "pending", rows[u].at # NULL
    PROVE  rows' = rows /\ \E h \in Alive' : timers'[h] <= rows[u].at
<1> DEFINE retries == {v \in Uploads : rows[v].status = "pending" /\ rows[v].at # NULL}
<1>1. u \in retries /\ rows' = rows
  BY DEF ArmTimer, table
<1>2. PICK v \in retries : rows[v].at <= rows[u].at /\ SetTimer(rows[v].at)
  BY <1>1 DEF ArmTimer
<1>3. PICK h \in Handles : timers' = [timers EXCEPT ![h] = rows[v].at]
  BY <1>2 DEF SetTimer
<1>4. timers'[h] = rows[v].at /\ rows[v].at # NULL
  BY <1>2, <1>3 DEF TypeOK, WakeType
<1> QED BY <1>1, <1>2, <1>4 DEF Alive

(* Every step keeps the wake invariant.                                    *)
LEMMA WakeStep == ASSUME QuietQueue PROVE IInv /\ WakeInv /\ [Next]_vars => WakeInv'
<1> SUFFICES ASSUME IInv, WakeInv, [Next]_vars PROVE WakeInv'
  OBVIOUS
<1>0. TypeOK /\ PassCap /\ BatchesCounted
  BY DEF IInv
<1>1. \A u \in Uploads : rows'[u].status # "pending" => rows'[u].at = NULL
  BY <1>0, RetryTimes DEF WakeInv
<1>2. /\ \A c \in Callers : calls'[c].pc # "idle" => calls'[c].wakes /\ calls'[c].pc # "rejected"
      /\ \A c \in Callers : calls[c].pc # "idle" /\ calls'[c].pc = "idle" =>
            ArmTimer(c) \/ (ScheduleWake(c) /\ ~started)
  BY <1>0, WakefulCalls DEF WakeInv
<1>3. RetriesHaveTimer'
  <2> SUFFICES ASSUME started', \A c \in Callers : calls'[c].pc = "idle",
                      NEW u \in Uploads, rows'[u].status = "pending", rows'[u].at # NULL
               PROVE  \E h \in Alive' : timers'[h] <= rows'[u].at
    BY DEF RetriesHaveTimer
  <2>1. CASE \A c \in Callers : calls[c].pc = "idle"
    <3>1. started /\ timers' = timers /\ rows'[u] = rows[u]
      BY <2>1, RestStays
    <3> QED BY <2>1, <3>1 DEF WakeInv, RetriesHaveTimer, Alive
  <2>2. ASSUME NEW c \in Callers, calls[c].pc # "idle"
        PROVE  \E h \in Alive' : timers'[h] <= rows'[u].at
    <3>1. ~(ScheduleWake(c) /\ ~started)
      BY DEF ScheduleWake, flags
    <3>2. ArmTimer(c)
      BY <1>2, <2>2, <3>1
    <3>3. rows' = rows
      BY <3>2 DEF ArmTimer, table
    <3> QED BY <1>0, <3>2, <3>3, ArmedForAll
  <2> QED BY <2>1, <2>2
<1> QED BY <1>1, <1>2, <1>3 DEF WakeInv

(* Where nothing throws and the application leaves process() to the queue, *)
(* a started queue at rest has a timer for every scheduled retry, however  *)
(* calls, retries, stops and outages interleave.                           *)
THEOREM NoRetryForgotten == ASSUME QuietQueue PROVE Spec => []RetriesHaveTimer
<1>1. Init => WakeInv
  BY DEF Init, WakeInv, RetriesHaveTimer
<1>2. Spec => []WakeInv
  BY <1>1, WakeStep, Invariant, PTL DEF Spec
<1>3. WakeInv => RetriesHaveTimer
  BY DEF WakeInv
<1> QED BY <1>2, <1>3, PTL
================================================================================
