------------------- MODULE ReconciliationSchedulerProofs -------------------
(***************************************************************************)
(* Theorems about ReconciliationScheduler for every set of services, every *)
(* dependency graph, every policy and every bound.                         *)
(***************************************************************************)
EXTENDS ReconciliationScheduler, TLAPS

USE DEF durable, admin, cycle, history, vars,
        IntervalEnd, Settled, Claimed, Matches, RetainedClaims, IncompleteReport

\* What an instant is: a natural number whose minute is within the horizon.
LEMMA InstantFacts ==
    ASSUME NEW t \in Instants
    PROVE  t \in Nat /\ Minute(t) \in Minutes
BY SchedulerAssumption DEF Instants

\* Generated occurrences are occurrences of that service inside the interval.
LEMMA TransitionsInInterval ==
    ASSUME NEW s \in Services, NEW p, NEW lo \in 0..Horizon, NEW hi \in 0..Horizon
    PROVE  /\ Transitions(s, p, lo, hi) \subseteq Occurrence
           /\ \A o \in Transitions(s, p, lo, hi) :
                 lo < o.scheduledFor /\ o.scheduledFor <= hi
BY SchedulerAssumption DEF Transitions, Occurrence, Minutes

\* The initial state is well typed.
LEMMA TypeInit == Init => TypeOK
BY SchedulerAssumption
   DEF Init, TypeOK, NoCursor, NoOverride, Override, OverrideKinds, Instants, Policy

\* Every step keeps the types.
LEMMA TypeStep == TypeOK /\ [Next]_vars => TypeOK'
<1> SUFFICES ASSUME TypeOK, [Next]_vars PROVE TypeOK'
    OBVIOUS
<1> USE SchedulerAssumption
<1>1. CASE BeginCycle
  <2>1. Minute(now) \in Minutes
    BY InstantFacts DEF TypeOK
  <2>2. from' \in 0..Horizon /\ until' \in 0..Horizon
    BY <1>1, <2>1 DEF BeginCycle, TypeOK, Minutes, NoCursor
  <2> QED BY <1>1, <2>2 DEF BeginCycle, TypeOK
<1>2. CASE IdleCycle
  BY <1>2 DEF IdleCycle, TypeOK
<1>3. CASE ClockBeforeCursor
  BY <1>3 DEF ClockBeforeCursor, Halt, Forget, NoCursor, NoOverride, Override, TypeOK
<1>4. CASE OrderOccurrences
  BY <1>4 DEF OrderOccurrences, TypeOK
<1>5. CASE Restart
  BY <1>5 DEF Restart, TypeOK
<1>6. ASSUME NEW s \in todo, GenerateOccurrences(s) PROVE TypeOK'
  <2>1. Transitions(s, policy[s], from, until) \subseteq Occurrence
    BY TransitionsInInterval DEF TypeOK
  <2>2. (from + 1)..until \subseteq Minutes
    BY DEF TypeOK, Minutes
  <2>3. generated' \in [Services -> SUBSET Minutes]
    BY <1>6, <2>2 DEF GenerateOccurrences, TypeOK
  <2> QED BY <1>6, <2>1, <2>3 DEF GenerateOccurrences, TypeOK
<1>7. ASSUME NEW s \in todo, GenerationFails(s) PROVE TypeOK'
  BY <1>7 DEF GenerationFails, Fault, TypeOK
<1>8. ASSUME NEW o \in pending, PlanOccurrence(o) PROVE TypeOK'
  BY <1>8 DEF PlanOccurrence, TypeOK
<1>9. ASSUME NEW o \in pending, PlanningFails(o) PROVE TypeOK'
  BY <1>9 DEF PlanningFails, Fault, TypeOK
<1>10. ASSUME NEW o \in current, ClaimOccurrence(o) PROVE TypeOK'
  BY <1>10 DEF ClaimOccurrence, Settle, TypeOK
<1>11. ASSUME NEW o \in current, ClaimFails(o) PROVE TypeOK'
  BY <1>11 DEF ClaimFails, Settle, Fault, TypeOK
<1>12. ASSUME NEW o \in current, StartOrchestration(o) PROVE TypeOK'
  <2>1. todo' \subseteq Services
    BY <1>12 DEF StartOrchestration, PlannedServices, TypeOK
  <2>2. attempts' \in [Occurrence -> Nat]
    BY <1>12 DEF StartOrchestration, TypeOK
  <2> QED BY <1>12, <2>1, <2>2 DEF StartOrchestration, Settle, TypeOK
<1>13. ASSUME NEW o \in current, NEW s \in todo, ControlService(o, s) PROVE TypeOK'
  BY <1>13 DEF ControlService, TypeOK
<1>14. ASSUME NEW o \in current, OrchestrationSucceeds(o) PROVE TypeOK'
  BY <1>14 DEF OrchestrationSucceeds, Settle, TypeOK
<1>15. ASSUME NEW o \in current, OrchestrationFails(o) PROVE TypeOK'
  BY <1>15 DEF OrchestrationFails, Settle, Fault, TypeOK
<1>16. CASE BeginOverridePruning
  BY <1>16, InstantFacts DEF BeginOverridePruning, TypeOK
<1>17. ASSUME NEW s \in todo, FindOverride(s) PROVE TypeOK'
  BY <1>17 DEF FindOverride, TypeOK
<1>18. ASSUME NEW s \in todo, RemoveOverrideIfMatches(s) PROVE TypeOK'
  BY <1>18 DEF RemoveOverrideIfMatches, NoOverride, Override, TypeOK
<1>19. ASSUME NEW s \in todo, OverridePruningFails(s) PROVE TypeOK'
  BY <1>19 DEF OverridePruningFails, Fault, NoOverride, Override, TypeOK
<1>20. CASE EndOverridePruning
  BY <1>20 DEF EndOverridePruning, Halt, Forget, NoCursor, NoOverride, Override, TypeOK
<1>21. CASE PruneCompletedClaims
  <2>1. claims' \subseteq Occurrence
    BY <1>21 DEF PruneCompletedClaims, TypeOK
  <2>2. CASE report = "incomplete"
    BY <1>21, <2>1, <2>2 DEF PruneCompletedClaims, Halt, Forget, NoCursor, NoOverride,
       Override, TypeOK
  <2>3. CASE report # "incomplete"
    BY <1>21, <2>1, <2>3 DEF PruneCompletedClaims, TypeOK
  <2> QED BY <2>2, <2>3
<1>22. CASE AdvanceCursor
  BY <1>22 DEF AdvanceCursor, Halt, Forget, NoCursor, NoOverride, Override, Minutes,
     TypeOK
<1>23. CASE CycleRejects
  BY <1>23 DEF CycleRejects, Fault, Halt, Forget, NoCursor, NoOverride, Override, TypeOK
<1>24. CASE Crash
  BY <1>24 DEF Crash, Fault, Halt, Forget, NoCursor, NoOverride, Override, TypeOK
<1>25. CASE ClockTick
  BY <1>25 DEF ClockTick, TypeOK
<1>26. CASE ClockStepsBack
  BY <1>26 DEF ClockStepsBack, Edit, TypeOK
<1>27. ASSUME NEW s \in Services, NEW k \in OverrideKinds, NEW t \in Instants, SetOverride(s, k, t)
      PROVE TypeOK'
  BY <1>27, InstantFacts DEF SetOverride, Edit, Override, TypeOK
<1>28. ASSUME NEW s \in Services, CancelOverride(s) PROVE TypeOK'
  BY <1>28 DEF CancelOverride, Edit, NoOverride, Override, TypeOK
<1>29. ASSUME NEW s \in Services, RemovePolicy(s) PROVE TypeOK'
  BY <1>29 DEF RemovePolicy, Edit, TypeOK
<1>30. ASSUME NEW s \in Services, NEW p \in Policies, UpdatePolicy(s, p) PROVE TypeOK'
  BY <1>30 DEF UpdatePolicy, Edit, TypeOK
<1>31. ASSUME NEW s \in Services, NEW st \in {"running", "stopped"}, StatusChanges(s, st)
      PROVE TypeOK'
  BY <1>31 DEF StatusChanges, Edit, TypeOK
<1>32. CASE UNCHANGED vars
  BY <1>32 DEF TypeOK
<1> QED
  BY <1>1, <1>2, <1>3, <1>4, <1>5, <1>6, <1>7, <1>8, <1>9, <1>10, <1>11, <1>12, <1>13,
     <1>14, <1>15, <1>16, <1>17, <1>18, <1>19, <1>20, <1>21, <1>22, <1>23, <1>24, <1>25,
     <1>26, <1>27, <1>28, <1>29, <1>30, <1>31, <1>32
     DEF Next, SchedulerStep, FaultStep, EditStep

\* Every reachable state is well typed.
THEOREM TypeCorrect == Spec => []TypeOK
BY TypeInit, TypeStep, PTL DEF Spec

-----------------------------------------------------------------------------
\* SafetyInv depends on these variables alone.
LEMMA SafetyFrame ==
    SafetyInv /\ UNCHANGED <<cursor, claims, pc, seen, from, until, pending, current, attempts>>
        => SafetyInv'
BY DEF SafetyInv, IntervalInv, CurrentInv, AttemptInv, AtMostOnce, InCycle

\* A cycle that ends without moving cursor or claims keeps it.
LEMMA SafetyHalt ==
    SafetyInv /\ Halt /\ UNCHANGED <<cursor, claims, attempts>> => SafetyInv'
BY DEF Halt, Forget, SafetyInv, IntervalInv, CurrentInv, AttemptInv, AtMostOnce, InCycle

\* Every step keeps SafetyInv: a claim is made only ahead of the cursor, and what
\* was attempted stays claimed until the cursor has passed it.
LEMMA SafetyStep == TypeOK /\ SafetyInv /\ [Next]_vars => SafetyInv'
<1> SUFFICES ASSUME TypeOK, SafetyInv, [Next]_vars PROVE SafetyInv'
    OBVIOUS
<1>1. CASE BeginCycle
  <2>1. Minute(now) \in Minutes
    BY InstantFacts DEF TypeOK
  <2>2. from' < until' /\ until' <= from' + MaxInterval
    BY <1>1, <2>1, SchedulerAssumption DEF BeginCycle, TypeOK, Minutes, NoCursor
  <2> QED BY <1>1, <2>2 DEF BeginCycle, TypeOK, NoCursor, SafetyInv, IntervalInv,
     CurrentInv, AttemptInv, AtMostOnce, InCycle
<1>2. CASE IdleCycle
  BY <1>2, SafetyFrame DEF IdleCycle
<1>3. CASE ClockBeforeCursor
  BY <1>3, SafetyHalt DEF ClockBeforeCursor
<1>4. CASE OrderOccurrences
  BY <1>4 DEF OrderOccurrences, SafetyInv, IntervalInv, CurrentInv, AttemptInv,
     AtMostOnce, InCycle
<1>5. CASE Restart
  BY <1>5 DEF Restart, SafetyInv, IntervalInv, CurrentInv, AttemptInv, AtMostOnce, InCycle
<1>6. ASSUME NEW s \in todo, GenerateOccurrences(s) PROVE SafetyInv'
  <2>1. \A o \in Transitions(s, policy[s], from, until) :
            from < o.scheduledFor /\ o.scheduledFor <= until
    BY TransitionsInInterval DEF TypeOK
  <2> QED BY <1>6, <2>1 DEF GenerateOccurrences, SafetyInv, IntervalInv, CurrentInv,
     AttemptInv, AtMostOnce, InCycle
<1>7. ASSUME NEW s \in todo, GenerationFails(s) PROVE SafetyInv'
  BY <1>7, SafetyFrame DEF GenerationFails
<1>8. ASSUME NEW o \in pending, PlanOccurrence(o) PROVE SafetyInv'
  BY <1>8 DEF PlanOccurrence, SafetyInv, IntervalInv, CurrentInv, AttemptInv, AtMostOnce,
     InCycle
<1>9. ASSUME NEW o \in pending, PlanningFails(o) PROVE SafetyInv'
  BY <1>9 DEF PlanningFails, SafetyInv, IntervalInv, CurrentInv, AttemptInv, AtMostOnce,
     InCycle
<1>10. ASSUME NEW o \in current, ClaimOccurrence(o) PROVE SafetyInv'
  <2>1. from < o.scheduledFor /\ cursor <= from
    BY <1>10 DEF ClaimOccurrence, TypeOK, NoCursor, Minutes, SafetyInv, IntervalInv,
       CurrentInv, AttemptInv, AtMostOnce, InCycle
  <2>2. o \notin claims => attempts[o] = 0
    BY <2>1 DEF TypeOK, Occurrence, Minutes, NoCursor, SafetyInv, IntervalInv,
       CurrentInv, AttemptInv, AtMostOnce, InCycle
  <2> QED BY <1>10, <2>2 DEF ClaimOccurrence, Settle, SafetyInv, IntervalInv, CurrentInv,
     AttemptInv, AtMostOnce, InCycle
<1>11. ASSUME NEW o \in current, ClaimFails(o) PROVE SafetyInv'
  BY <1>11 DEF ClaimFails, Settle, SafetyInv, IntervalInv, CurrentInv, AttemptInv,
     AtMostOnce, InCycle
<1>12. ASSUME NEW o \in current, StartOrchestration(o) PROVE SafetyInv'
  <2>1. o \in claims /\ attempts[o] = 0 /\ o \in Occurrence
    BY <1>12 DEF StartOrchestration, TypeOK, SafetyInv, IntervalInv, CurrentInv,
       AttemptInv, AtMostOnce, InCycle
  <2>2. attempts' = [attempts EXCEPT ![o] = 1]
    BY <1>12, <2>1 DEF StartOrchestration
  <2>3. AttemptInv' /\ AtMostOnce'
    BY <1>12, <2>1, <2>2 DEF StartOrchestration, TypeOK, SafetyInv, IntervalInv,
       CurrentInv, AttemptInv, AtMostOnce, InCycle
  <2>4. IntervalInv' /\ CurrentInv'
    BY <1>12 DEF StartOrchestration, Settle, SafetyInv, IntervalInv, CurrentInv,
       AttemptInv, AtMostOnce, InCycle
  <2> QED BY <2>3, <2>4 DEF SafetyInv
<1>13. ASSUME NEW o \in current, NEW s \in todo, ControlService(o, s) PROVE SafetyInv'
  BY <1>13, SafetyFrame DEF ControlService
<1>14. ASSUME NEW o \in current, OrchestrationSucceeds(o) PROVE SafetyInv'
  BY <1>14 DEF OrchestrationSucceeds, Settle, SafetyInv, IntervalInv, CurrentInv,
     AttemptInv, AtMostOnce, InCycle
<1>15. ASSUME NEW o \in current, OrchestrationFails(o) PROVE SafetyInv'
  BY <1>15 DEF OrchestrationFails, Settle, SafetyInv, IntervalInv, CurrentInv, AttemptInv,
     AtMostOnce, InCycle
<1>16. CASE BeginOverridePruning
  BY <1>16 DEF BeginOverridePruning, SafetyInv, IntervalInv, CurrentInv, AttemptInv,
     AtMostOnce, InCycle
<1>17. ASSUME NEW s \in todo, FindOverride(s) PROVE SafetyInv'
  BY <1>17 DEF FindOverride, SafetyInv, IntervalInv, CurrentInv, AttemptInv, AtMostOnce,
     InCycle
<1>18. ASSUME NEW s \in todo, RemoveOverrideIfMatches(s) PROVE SafetyInv'
  BY <1>18 DEF RemoveOverrideIfMatches, SafetyInv, IntervalInv, CurrentInv, AttemptInv,
     AtMostOnce, InCycle
<1>19. ASSUME NEW s \in todo, OverridePruningFails(s) PROVE SafetyInv'
  BY <1>19 DEF OverridePruningFails, SafetyInv, IntervalInv, CurrentInv, AttemptInv,
     AtMostOnce, InCycle
<1>20. CASE EndOverridePruning
  <2>1. CASE pruneReport = "incomplete"
    BY <1>20, <2>1, SafetyHalt DEF EndOverridePruning
  <2>2. CASE pruneReport # "incomplete"
    BY <1>20, <2>2 DEF EndOverridePruning, SafetyInv, IntervalInv, CurrentInv,
       AttemptInv, AtMostOnce, InCycle
  <2> QED BY <2>1, <2>2
<1>21. CASE PruneCompletedClaims
  <2>1. AttemptInv'
    BY <1>21 DEF PruneCompletedClaims, TypeOK, Occurrence, Minutes, NoCursor, SafetyInv,
       IntervalInv, CurrentInv, AttemptInv, AtMostOnce, InCycle
  <2>2. AtMostOnce'
    BY <1>21 DEF PruneCompletedClaims, SafetyInv, IntervalInv, CurrentInv, AttemptInv,
       AtMostOnce, InCycle
  <2>3. IntervalInv' /\ CurrentInv'
    BY <1>21 DEF PruneCompletedClaims, Halt, Forget, SafetyInv, IntervalInv, CurrentInv,
       AttemptInv, AtMostOnce, InCycle
  <2> QED BY <2>1, <2>2, <2>3 DEF SafetyInv
<1>22. CASE AdvanceCursor
  <2>1. cursor <= cursor'
    BY <1>22 DEF AdvanceCursor, TypeOK, Minutes, NoCursor, SafetyInv, IntervalInv,
       CurrentInv, AttemptInv, AtMostOnce, InCycle
  <2>2. AttemptInv'
    BY <1>22, <2>1 DEF AdvanceCursor, TypeOK, Occurrence, Minutes, NoCursor, SafetyInv,
       IntervalInv, CurrentInv, AttemptInv, AtMostOnce, InCycle
  <2>3. AtMostOnce'
    BY <1>22 DEF AdvanceCursor, SafetyInv, IntervalInv, CurrentInv, AttemptInv,
       AtMostOnce, InCycle
  <2>4. IntervalInv' /\ CurrentInv'
    BY <1>22 DEF AdvanceCursor, Halt, Forget, SafetyInv, IntervalInv, CurrentInv,
       AttemptInv, AtMostOnce, InCycle
  <2> QED BY <2>2, <2>3, <2>4 DEF SafetyInv
<1>23. CASE CycleRejects
  BY <1>23, SafetyHalt DEF CycleRejects
<1>24. CASE Crash
  BY <1>24, SafetyHalt DEF Crash
<1>25. CASE ClockTick
  BY <1>25, SafetyFrame DEF ClockTick
<1>26. CASE ClockStepsBack
  BY <1>26, SafetyFrame DEF ClockStepsBack
<1>27. ASSUME NEW s \in Services, NEW k \in OverrideKinds, NEW t \in Instants, SetOverride(s, k, t)
      PROVE SafetyInv'
  BY <1>27, SafetyFrame DEF SetOverride
<1>28. ASSUME NEW s \in Services, CancelOverride(s) PROVE SafetyInv'
  BY <1>28, SafetyFrame DEF CancelOverride
<1>29. ASSUME NEW s \in Services, RemovePolicy(s) PROVE SafetyInv'
  BY <1>29, SafetyFrame DEF RemovePolicy
<1>30. ASSUME NEW s \in Services, NEW p \in Policies, UpdatePolicy(s, p) PROVE SafetyInv'
  BY <1>30, SafetyFrame DEF UpdatePolicy
<1>31. ASSUME NEW s \in Services, NEW st \in {"running", "stopped"}, StatusChanges(s, st)
      PROVE SafetyInv'
  BY <1>31, SafetyFrame DEF StatusChanges
<1>32. CASE UNCHANGED vars
  BY <1>32, SafetyFrame
<1> QED
  BY <1>1, <1>2, <1>3, <1>4, <1>5, <1>6, <1>7, <1>8, <1>9, <1>10, <1>11, <1>12, <1>13,
     <1>14, <1>15, <1>16, <1>17, <1>18, <1>19, <1>20, <1>21, <1>22, <1>23, <1>24, <1>25,
     <1>26, <1>27, <1>28, <1>29, <1>30, <1>31, <1>32
     DEF Next, SchedulerStep, FaultStep, EditStep

\* Nothing is attempted at first.
LEMMA SafetyInit == Init => SafetyInv
BY DEF Init, NoCursor, SafetyInv, IntervalInv, CurrentInv, AttemptInv, AtMostOnce, InCycle

\* The attempts, the claims and the cursor fit together in every reachable state.
THEOREM SafetyCorrect == Spec => []SafetyInv
BY TypeCorrect, SafetyInit, SafetyStep, PTL DEF Spec

\* FR-014: at most one orchestration per occurrence, for all services, graphs,
\* policies, faults, edits, restarts and clock jumps.
THEOREM OccurrencesAttemptedAtMostOnce == Spec => []AtMostOnce
<1>1. SafetyInv => AtMostOnce
  BY DEF SafetyInv
<1> QED BY <1>1, SafetyCorrect, PTL

-----------------------------------------------------------------------------
\* CoveredInv depends on these variables alone.
LEMMA CoveredFrame ==
    CoveredInv /\ UNCHANGED <<cursor, pc, from, until, todo, report, generated, origin>>
        => CoveredInv'
BY DEF CoveredInv, CoverageInv, NoGapBehindCursor, InCycle

\* A cycle that ends without moving the cursor keeps it.
LEMMA CoveredHalt ==
    CoveredInv /\ Halt /\ UNCHANGED <<cursor, generated, origin>> => CoveredInv'
BY DEF Halt, CoveredInv, CoverageInv, NoGapBehindCursor, InCycle

\* Every step keeps CoveredInv: the cursor moves over an interval only after the
\* generation of every service has covered it.
LEMMA CoveredStep ==
    TypeOK /\ SafetyInv /\ CoveredInv /\ [Next]_vars => CoveredInv'
<1> SUFFICES ASSUME TypeOK, SafetyInv, CoveredInv, [Next]_vars PROVE CoveredInv'
    OBVIOUS
<1>1. CASE BeginCycle
  BY <1>1 DEF BeginCycle, CoveredInv, CoverageInv, NoGapBehindCursor, InCycle
<1>2. CASE IdleCycle
  BY <1>2, CoveredFrame DEF IdleCycle
<1>3. CASE ClockBeforeCursor
  BY <1>3, CoveredHalt DEF ClockBeforeCursor
<1>4. CASE OrderOccurrences
  BY <1>4 DEF OrderOccurrences, CoveredInv, CoverageInv, NoGapBehindCursor, InCycle
<1>5. CASE Restart
  BY <1>5 DEF Restart, CoveredInv, CoverageInv, NoGapBehindCursor, InCycle
<1>6. ASSUME NEW s \in todo, GenerateOccurrences(s) PROVE CoveredInv'
  <2>1. s \in Services /\ generated' = [generated EXCEPT ![s] = @ \cup ((from + 1)..until)]
    BY <1>6 DEF GenerateOccurrences, TypeOK
  <2>2. \A m \in Minutes : from < m /\ m <= until => m \in generated'[s]
    BY <2>1 DEF TypeOK, Minutes
  <2>3. \A x \in Services : generated[x] \subseteq generated'[x]
    BY <2>1 DEF TypeOK
  <2>4. CoverageInv'
    BY <1>6, <2>2, <2>3 DEF GenerateOccurrences, CoveredInv, CoverageInv,
       NoGapBehindCursor, InCycle
  <2>5. NoGapBehindCursor'
    BY <1>6, <2>3 DEF GenerateOccurrences, CoveredInv, CoverageInv, NoGapBehindCursor,
       InCycle
  <2> QED BY <2>4, <2>5 DEF CoveredInv
<1>7. ASSUME NEW s \in todo, GenerationFails(s) PROVE CoveredInv'
  BY <1>7 DEF GenerationFails, CoveredInv, CoverageInv, NoGapBehindCursor, InCycle
<1>8. ASSUME NEW o \in pending, PlanOccurrence(o) PROVE CoveredInv'
  BY <1>8 DEF PlanOccurrence, CoveredInv, CoverageInv, NoGapBehindCursor, InCycle
<1>9. ASSUME NEW o \in pending, PlanningFails(o) PROVE CoveredInv'
  BY <1>9 DEF PlanningFails, CoveredInv, CoverageInv, NoGapBehindCursor, InCycle
<1>10. ASSUME NEW o \in current, ClaimOccurrence(o) PROVE CoveredInv'
  BY <1>10 DEF ClaimOccurrence, Settle, CoveredInv, CoverageInv, NoGapBehindCursor, InCycle
<1>11. ASSUME NEW o \in current, ClaimFails(o) PROVE CoveredInv'
  BY <1>11 DEF ClaimFails, Settle, CoveredInv, CoverageInv, NoGapBehindCursor, InCycle
<1>12. ASSUME NEW o \in current, StartOrchestration(o) PROVE CoveredInv'
  BY <1>12 DEF StartOrchestration, Settle, CoveredInv, CoverageInv, NoGapBehindCursor,
     InCycle
<1>13. ASSUME NEW o \in current, NEW s \in todo, ControlService(o, s) PROVE CoveredInv'
  BY <1>13 DEF ControlService, CoveredInv, CoverageInv, NoGapBehindCursor, InCycle
<1>14. ASSUME NEW o \in current, OrchestrationSucceeds(o) PROVE CoveredInv'
  BY <1>14 DEF OrchestrationSucceeds, Settle, CoveredInv, CoverageInv, NoGapBehindCursor,
     InCycle
<1>15. ASSUME NEW o \in current, OrchestrationFails(o) PROVE CoveredInv'
  BY <1>15 DEF OrchestrationFails, Settle, CoveredInv, CoverageInv, NoGapBehindCursor,
     InCycle
<1>16. CASE BeginOverridePruning
  BY <1>16 DEF BeginOverridePruning, CoveredInv, CoverageInv, NoGapBehindCursor, InCycle
<1>17. ASSUME NEW s \in todo, FindOverride(s) PROVE CoveredInv'
  BY <1>17 DEF FindOverride, CoveredInv, CoverageInv, NoGapBehindCursor, InCycle
<1>18. ASSUME NEW s \in todo, RemoveOverrideIfMatches(s) PROVE CoveredInv'
  BY <1>18 DEF RemoveOverrideIfMatches, CoveredInv, CoverageInv, NoGapBehindCursor, InCycle
<1>19. ASSUME NEW s \in todo, OverridePruningFails(s) PROVE CoveredInv'
  BY <1>19 DEF OverridePruningFails, CoveredInv, CoverageInv, NoGapBehindCursor, InCycle
<1>20. CASE EndOverridePruning
  <2>1. CASE pruneReport = "incomplete"
    BY <1>20, <2>1, CoveredHalt DEF EndOverridePruning
  <2>2. CASE pruneReport # "incomplete"
    BY <1>20, <2>2 DEF EndOverridePruning, CoveredInv, CoverageInv, NoGapBehindCursor,
       InCycle
  <2> QED BY <2>1, <2>2
<1>21. CASE PruneCompletedClaims
  <2>1. CASE report = "incomplete"
    BY <1>21, <2>1, CoveredHalt DEF PruneCompletedClaims
  <2>2. CASE report # "incomplete"
    BY <1>21, <2>2 DEF PruneCompletedClaims, TypeOK, CoveredInv, CoverageInv,
       NoGapBehindCursor, InCycle
  <2> QED BY <2>1, <2>2
<1>22. CASE AdvanceCursor
  <2>1. CASE cursor # seen
    BY <1>22, <2>1, CoveredHalt DEF AdvanceCursor
  <2>2. CASE cursor = seen
    <3>1. report = "complete"
      BY <1>22 DEF AdvanceCursor, CoveredInv, CoverageInv, NoGapBehindCursor, InCycle
    <3>2. \A s \in Services, m \in Minutes : from < m /\ m <= until => m \in generated[s]
      BY <1>22, <3>1 DEF AdvanceCursor, CoveredInv, CoverageInv, NoGapBehindCursor, InCycle
    <3>3. cursor # NoCursor => from = cursor
      BY <1>22 DEF AdvanceCursor, SafetyInv, IntervalInv, InCycle
    <3>4. NoGapBehindCursor'
      BY <1>22, <2>2, <3>2, <3>3 DEF AdvanceCursor, TypeOK, Minutes, NoCursor,
         CoveredInv, CoverageInv, NoGapBehindCursor, InCycle
    <3>5. CoverageInv'
      BY <1>22, <2>2 DEF AdvanceCursor, CoveredInv, CoverageInv, NoGapBehindCursor, InCycle
    <3> QED BY <3>4, <3>5 DEF CoveredInv
  <2> QED BY <2>1, <2>2
<1>23. CASE CycleRejects
  BY <1>23, CoveredHalt DEF CycleRejects
<1>24. CASE Crash
  BY <1>24, CoveredHalt DEF Crash
<1>25. CASE ClockTick
  BY <1>25, CoveredFrame DEF ClockTick
<1>26. CASE ClockStepsBack
  BY <1>26, CoveredFrame DEF ClockStepsBack
<1>27. ASSUME NEW s \in Services, NEW k \in OverrideKinds, NEW t \in Instants, SetOverride(s, k, t)
      PROVE CoveredInv'
  BY <1>27, CoveredFrame DEF SetOverride
<1>28. ASSUME NEW s \in Services, CancelOverride(s) PROVE CoveredInv'
  BY <1>28, CoveredFrame DEF CancelOverride
<1>29. ASSUME NEW s \in Services, RemovePolicy(s) PROVE CoveredInv'
  BY <1>29, CoveredFrame DEF RemovePolicy
<1>30. ASSUME NEW s \in Services, NEW p \in Policies, UpdatePolicy(s, p) PROVE CoveredInv'
  BY <1>30, CoveredFrame DEF UpdatePolicy
<1>31. ASSUME NEW s \in Services, NEW st \in {"running", "stopped"}, StatusChanges(s, st)
      PROVE CoveredInv'
  BY <1>31, CoveredFrame DEF StatusChanges
<1>32. CASE UNCHANGED vars
  BY <1>32, CoveredFrame
<1> QED
  BY <1>1, <1>2, <1>3, <1>4, <1>5, <1>6, <1>7, <1>8, <1>9, <1>10, <1>11, <1>12, <1>13,
     <1>14, <1>15, <1>16, <1>17, <1>18, <1>19, <1>20, <1>21, <1>22, <1>23, <1>24, <1>25,
     <1>26, <1>27, <1>28, <1>29, <1>30, <1>31, <1>32
     DEF Next, SchedulerStep, FaultStep, EditStep

\* Nothing is behind the cursor at first.
LEMMA CoveredInit == Init => CoveredInv
BY DEF Init, NoCursor, Minutes, CoveredInv, CoverageInv, NoGapBehindCursor, InCycle

\* No minute behind the cursor was skipped for any service.
THEOREM NoMinuteSkipped == Spec => []NoGapBehindCursor
<1>1. Spec => []CoveredInv
  BY TypeCorrect, SafetyCorrect, CoveredInit, CoveredStep, PTL DEF Spec
<1>2. CoveredInv => NoGapBehindCursor
  BY DEF CoveredInv
<1> QED BY <1>1, <1>2, PTL
-----------------------------------------------------------------------------
\* RetainedInv depends on these variables, and on not being about to advance.
LEMMA RetainedFrame ==
    /\ RetainedInv
    /\ UNCHANGED <<cursor, claims, previous>>
    /\ pc' = "advance" => pc = "advance"
    => RetainedInv'
BY DEF RetainedInv, RetentionInv, ClaimRetentionBounded

\* Every step keeps RetainedInv: claims are pruned before the cursor moves.
LEMMA RetainedStep == TypeOK /\ SafetyInv /\ RetainedInv /\ [Next]_vars => RetainedInv'
<1> SUFFICES ASSUME TypeOK, SafetyInv, RetainedInv, [Next]_vars PROVE RetainedInv'
    OBVIOUS
<1>1. CASE BeginCycle
  BY <1>1, RetainedFrame DEF BeginCycle
<1>2. CASE IdleCycle
  BY <1>2, RetainedFrame DEF IdleCycle
<1>3. CASE ClockBeforeCursor
  BY <1>3, RetainedFrame DEF ClockBeforeCursor, Halt
<1>4. CASE OrderOccurrences
  BY <1>4, RetainedFrame DEF OrderOccurrences
<1>5. CASE Restart
  BY <1>5, RetainedFrame DEF Restart
<1>6. ASSUME NEW s \in todo, GenerateOccurrences(s) PROVE RetainedInv'
  BY <1>6, RetainedFrame DEF GenerateOccurrences
<1>7. ASSUME NEW s \in todo, GenerationFails(s) PROVE RetainedInv'
  BY <1>7, RetainedFrame DEF GenerationFails
<1>8. ASSUME NEW o \in pending, PlanOccurrence(o) PROVE RetainedInv'
  BY <1>8, RetainedFrame DEF PlanOccurrence
<1>9. ASSUME NEW o \in pending, PlanningFails(o) PROVE RetainedInv'
  BY <1>9, RetainedFrame DEF PlanningFails
<1>10. ASSUME NEW o \in current, ClaimOccurrence(o) PROVE RetainedInv'
  <2>1. cursor <= from /\ from < o.scheduledFor
    BY <1>10 DEF ClaimOccurrence, TypeOK, NoCursor, Minutes, SafetyInv, IntervalInv,
       CurrentInv, InCycle
  <2>2. o.scheduledFor > previous
    BY <2>1 DEF TypeOK, Occurrence, Minutes, NoCursor, RetainedInv, RetentionInv,
       ClaimRetentionBounded
  <2> QED BY <1>10, <2>2 DEF ClaimOccurrence, Settle, RetainedInv, RetentionInv,
     ClaimRetentionBounded
<1>11. ASSUME NEW o \in current, ClaimFails(o) PROVE RetainedInv'
  BY <1>11, RetainedFrame DEF ClaimFails, Settle
<1>12. ASSUME NEW o \in current, StartOrchestration(o) PROVE RetainedInv'
  BY <1>12, RetainedFrame DEF StartOrchestration, Settle
<1>13. ASSUME NEW o \in current, NEW s \in todo, ControlService(o, s) PROVE RetainedInv'
  BY <1>13, RetainedFrame DEF ControlService
<1>14. ASSUME NEW o \in current, OrchestrationSucceeds(o) PROVE RetainedInv'
  BY <1>14, RetainedFrame DEF OrchestrationSucceeds, Settle
<1>15. ASSUME NEW o \in current, OrchestrationFails(o) PROVE RetainedInv'
  BY <1>15, RetainedFrame DEF OrchestrationFails, Settle
<1>16. CASE BeginOverridePruning
  BY <1>16, RetainedFrame DEF BeginOverridePruning
<1>17. ASSUME NEW s \in todo, FindOverride(s) PROVE RetainedInv'
  BY <1>17, RetainedFrame DEF FindOverride
<1>18. ASSUME NEW s \in todo, RemoveOverrideIfMatches(s) PROVE RetainedInv'
  BY <1>18, RetainedFrame DEF RemoveOverrideIfMatches
<1>19. ASSUME NEW s \in todo, OverridePruningFails(s) PROVE RetainedInv'
  BY <1>19, RetainedFrame DEF OverridePruningFails
<1>20. CASE EndOverridePruning
  BY <1>20, RetainedFrame DEF EndOverridePruning, Halt
<1>21. CASE PruneCompletedClaims
  <2>1. \A o \in claims' : o \in claims /\ o.scheduledFor > cursor
    BY <1>21 DEF PruneCompletedClaims, TypeOK, Occurrence, Minutes, NoCursor
  <2> QED BY <1>21, <2>1 DEF PruneCompletedClaims, RetainedInv, RetentionInv,
     ClaimRetentionBounded
<1>22. CASE AdvanceCursor
  <2>1. CASE cursor # seen
    BY <1>22, <2>1, RetainedFrame DEF AdvanceCursor, Halt
  <2>2. CASE cursor = seen
    <3>1. cursor <= cursor' /\ previous' = cursor
      BY <1>22, <2>2 DEF AdvanceCursor, TypeOK, Minutes, NoCursor, SafetyInv,
         IntervalInv, InCycle
    <3> QED BY <1>22, <2>2, <3>1 DEF AdvanceCursor, RetainedInv, RetentionInv,
       ClaimRetentionBounded
  <2> QED BY <2>1, <2>2
<1>23. CASE CycleRejects
  BY <1>23, RetainedFrame DEF CycleRejects, Halt
<1>24. CASE Crash
  BY <1>24, RetainedFrame DEF Crash, Halt
<1>25. CASE ClockTick
  BY <1>25, RetainedFrame DEF ClockTick
<1>26. CASE ClockStepsBack
  BY <1>26, RetainedFrame DEF ClockStepsBack
<1>27. ASSUME NEW s \in Services, NEW k \in OverrideKinds, NEW t \in Instants, SetOverride(s, k, t)
      PROVE RetainedInv'
  BY <1>27, RetainedFrame DEF SetOverride
<1>28. ASSUME NEW s \in Services, CancelOverride(s) PROVE RetainedInv'
  BY <1>28, RetainedFrame DEF CancelOverride
<1>29. ASSUME NEW s \in Services, RemovePolicy(s) PROVE RetainedInv'
  BY <1>29, RetainedFrame DEF RemovePolicy
<1>30. ASSUME NEW s \in Services, NEW p \in Policies, UpdatePolicy(s, p) PROVE RetainedInv'
  BY <1>30, RetainedFrame DEF UpdatePolicy
<1>31. ASSUME NEW s \in Services, NEW st \in {"running", "stopped"}, StatusChanges(s, st)
      PROVE RetainedInv'
  BY <1>31, RetainedFrame DEF StatusChanges
<1>32. CASE UNCHANGED vars
  BY <1>32, RetainedFrame
<1> QED
  BY <1>1, <1>2, <1>3, <1>4, <1>5, <1>6, <1>7, <1>8, <1>9, <1>10, <1>11, <1>12, <1>13,
     <1>14, <1>15, <1>16, <1>17, <1>18, <1>19, <1>20, <1>21, <1>22, <1>23, <1>24, <1>25,
     <1>26, <1>27, <1>28, <1>29, <1>30, <1>31, <1>32
     DEF Next, SchedulerStep, FaultStep, EditStep

\* There is no claim at first.
LEMMA RetainedInit == Init => RetainedInv
BY DEF Init, NoCursor, RetainedInv, RetentionInv, ClaimRetentionBounded

\* The claim file never holds a claim older than the last completed interval.
THEOREM ClaimsStayBounded == Spec => []ClaimRetentionBounded
<1>1. Spec => []RetainedInv
  BY TypeCorrect, SafetyCorrect, RetainedInit, RetainedStep, PTL DEF Spec
<1>2. RetainedInv => ClaimRetentionBounded
  BY DEF RetainedInv
<1> QED BY <1>1, <1>2, PTL
-----------------------------------------------------------------------------
\* Between its read and its removal the pruner holds an expired override.
LEMMA PruneStep == PruneInv /\ [Next]_vars => PruneInv'
<1> SUFFICES ASSUME PruneInv, [Next]_vars PROVE PruneInv'
    OBVIOUS
<1>1. CASE BeginCycle
  BY <1>1 DEF BeginCycle, PruneInv
<1>2. CASE IdleCycle
  BY <1>2 DEF IdleCycle, PruneInv
<1>3. CASE ClockBeforeCursor
  BY <1>3 DEF ClockBeforeCursor, Halt, Forget, PruneInv
<1>4. CASE OrderOccurrences
  BY <1>4 DEF OrderOccurrences, PruneInv
<1>5. CASE Restart
  BY <1>5 DEF Restart, PruneInv
<1>6. ASSUME NEW s \in todo, GenerateOccurrences(s) PROVE PruneInv'
  BY <1>6 DEF GenerateOccurrences, PruneInv
<1>7. ASSUME NEW s \in todo, GenerationFails(s) PROVE PruneInv'
  BY <1>7 DEF GenerationFails, PruneInv
<1>8. ASSUME NEW o \in pending, PlanOccurrence(o) PROVE PruneInv'
  BY <1>8 DEF PlanOccurrence, PruneInv
<1>9. ASSUME NEW o \in pending, PlanningFails(o) PROVE PruneInv'
  BY <1>9 DEF PlanningFails, PruneInv
<1>10. ASSUME NEW o \in current, ClaimOccurrence(o) PROVE PruneInv'
  BY <1>10 DEF ClaimOccurrence, Settle, PruneInv
<1>11. ASSUME NEW o \in current, ClaimFails(o) PROVE PruneInv'
  BY <1>11 DEF ClaimFails, Settle, PruneInv
<1>12. ASSUME NEW o \in current, StartOrchestration(o) PROVE PruneInv'
  BY <1>12 DEF StartOrchestration, Settle, PruneInv
<1>13. ASSUME NEW o \in current, NEW s \in todo, ControlService(o, s) PROVE PruneInv'
  BY <1>13 DEF ControlService, PruneInv
<1>14. ASSUME NEW o \in current, OrchestrationSucceeds(o) PROVE PruneInv'
  BY <1>14 DEF OrchestrationSucceeds, Settle, PruneInv
<1>15. ASSUME NEW o \in current, OrchestrationFails(o) PROVE PruneInv'
  BY <1>15 DEF OrchestrationFails, Settle, PruneInv
<1>16. CASE BeginOverridePruning
  BY <1>16 DEF BeginOverridePruning, PruneInv
<1>17. ASSUME NEW s \in todo, FindOverride(s) PROVE PruneInv'
  BY <1>17 DEF FindOverride, PruneInv
<1>18. ASSUME NEW s \in todo, RemoveOverrideIfMatches(s) PROVE PruneInv'
  BY <1>18 DEF RemoveOverrideIfMatches, PruneInv
<1>19. ASSUME NEW s \in todo, OverridePruningFails(s) PROVE PruneInv'
  BY <1>19 DEF OverridePruningFails, PruneInv
<1>20. CASE EndOverridePruning
  BY <1>20 DEF EndOverridePruning, Halt, Forget, PruneInv
<1>21. CASE PruneCompletedClaims
  BY <1>21 DEF PruneCompletedClaims, Halt, Forget, PruneInv
<1>22. CASE AdvanceCursor
  BY <1>22 DEF AdvanceCursor, Halt, Forget, PruneInv
<1>23. CASE CycleRejects
  BY <1>23 DEF CycleRejects, Halt, Forget, PruneInv
<1>24. CASE Crash
  BY <1>24 DEF Crash, Halt, Forget, PruneInv
<1>25. CASE ClockTick
  BY <1>25 DEF ClockTick, PruneInv
<1>26. CASE ClockStepsBack
  BY <1>26 DEF ClockStepsBack, PruneInv
<1>27. ASSUME NEW s \in Services, NEW k \in OverrideKinds, NEW t \in Instants, SetOverride(s, k, t)
      PROVE PruneInv'
  BY <1>27 DEF SetOverride, PruneInv
<1>28. ASSUME NEW s \in Services, CancelOverride(s) PROVE PruneInv'
  BY <1>28 DEF CancelOverride, PruneInv
<1>29. ASSUME NEW s \in Services, RemovePolicy(s) PROVE PruneInv'
  BY <1>29 DEF RemovePolicy, PruneInv
<1>30. ASSUME NEW s \in Services, NEW p \in Policies, UpdatePolicy(s, p) PROVE PruneInv'
  BY <1>30 DEF UpdatePolicy, PruneInv
<1>31. ASSUME NEW s \in Services, NEW st \in {"running", "stopped"}, StatusChanges(s, st)
      PROVE PruneInv'
  BY <1>31 DEF StatusChanges, PruneInv
<1>32. CASE UNCHANGED vars
  BY <1>32 DEF PruneInv
<1> QED
  BY <1>1, <1>2, <1>3, <1>4, <1>5, <1>6, <1>7, <1>8, <1>9, <1>10, <1>11, <1>12, <1>13,
     <1>14, <1>15, <1>16, <1>17, <1>18, <1>19, <1>20, <1>21, <1>22, <1>23, <1>24, <1>25,
     <1>26, <1>27, <1>28, <1>29, <1>30, <1>31, <1>32
     DEF Next, SchedulerStep, FaultStep, EditStep

\* The step that removes an override removes an expired one.
LEMMA PrunerStepSpares ==
    ASSUME TypeOK, PruneInv, [Next]_vars, NEW s \in Services,
           pc \in {"prune", "remove"}, edits' = edits, override'[s] # override[s]
    PROVE  Expired(override[s], pruneAt)
<1>1. ~EditStep
  BY DEF EditStep, Edit, ClockStepsBack, SetOverride, CancelOverride, RemovePolicy,
         UpdatePolicy, StatusChanges, TypeOK
<1>2. override' # override
  OBVIOUS
<1>3. ~(FaultStep \/ IdleCycle \/ Restart \/ ClockTick)
  BY <1>2 DEF FaultStep, GenerationFails, OverridePruningFails, PlanningFails, ClaimFails,
     OrchestrationFails, CycleRejects, Crash, IdleCycle, Restart, ClockTick
<1>4. PICK t \in todo : RemoveOverrideIfMatches(t)
  BY <1>1, <1>2, <1>3 DEF Next, SchedulerStep, BeginCycle, ClockBeforeCursor,
     OrderOccurrences, GenerateOccurrences, FindOverride, PlanOccurrence, ClaimOccurrence,
     StartOrchestration, OrchestrationSucceeds, ControlService, BeginOverridePruning,
     EndOverridePruning, PruneCompletedClaims, AdvanceCursor
<1>5. override[s] = found /\ pc = "remove"
  BY <1>4 DEF RemoveOverrideIfMatches, TypeOK
<1> QED BY <1>5 DEF PruneInv

\* The pruner never removes an override that was live when its pass began.
THEOREM LiveOverridesSurvivePruning == Spec => PrunerSparesLiveOverrides
<1>1. Init => PruneInv
  BY DEF Init, PruneInv
<1>2. TypeOK /\ PruneInv /\ [Next]_vars =>
        [\A s \in Services :
            pc \in {"prune", "remove"} /\ edits' = edits /\ override'[s] # override[s]
                => Expired(override[s], pruneAt)]_vars
  BY PrunerStepSpares
<1> QED BY <1>1, <1>2, TypeCorrect, PruneStep, PTL DEF Spec, PrunerSparesLiveOverrides
-----------------------------------------------------------------------------
\* Every step of the scheduler is a delivery, a completion or a stutter of the
\* ledger.
LEMMA LedgerStep ==
    TypeOK /\ SafetyInv /\ [Next]_vars => [Ledger!Next]_(Ledger!vars)
<1> SUFFICES ASSUME TypeOK, SafetyInv, [Next]_vars PROVE [Ledger!Next]_(Ledger!vars)
    OBVIOUS
<1>1. CASE BeginCycle
  BY <1>1 DEF BeginCycle, Ledger!vars
<1>2. CASE IdleCycle
  BY <1>2 DEF IdleCycle, Ledger!vars
<1>3. CASE ClockBeforeCursor
  BY <1>3 DEF ClockBeforeCursor, Ledger!vars
<1>4. CASE OrderOccurrences
  BY <1>4 DEF OrderOccurrences, Ledger!vars
<1>5. CASE Restart
  BY <1>5 DEF Restart, Ledger!vars
<1>6. ASSUME NEW s \in todo, GenerateOccurrences(s) PROVE [Ledger!Next]_(Ledger!vars)
  BY <1>6 DEF GenerateOccurrences, Ledger!vars
<1>7. ASSUME NEW s \in todo, GenerationFails(s) PROVE [Ledger!Next]_(Ledger!vars)
  BY <1>7 DEF GenerationFails, Ledger!vars
<1>8. ASSUME NEW o \in pending, PlanOccurrence(o) PROVE [Ledger!Next]_(Ledger!vars)
  BY <1>8 DEF PlanOccurrence, Ledger!vars
<1>9. ASSUME NEW o \in pending, PlanningFails(o) PROVE [Ledger!Next]_(Ledger!vars)
  BY <1>9 DEF PlanningFails, Ledger!vars
<1>10. ASSUME NEW o \in current, ClaimOccurrence(o) PROVE [Ledger!Next]_(Ledger!vars)
  BY <1>10 DEF ClaimOccurrence, Ledger!vars
<1>11. ASSUME NEW o \in current, ClaimFails(o) PROVE [Ledger!Next]_(Ledger!vars)
  BY <1>11 DEF ClaimFails, Ledger!vars
<1>12. ASSUME NEW o \in current, StartOrchestration(o) PROVE [Ledger!Next]_(Ledger!vars)
  <2>1. /\ o \in Occurrence /\ attempts[o] = 0
        /\ from < o.scheduledFor /\ cursor <= from
    BY <1>12 DEF StartOrchestration, TypeOK, NoCursor, Minutes, SafetyInv, IntervalInv,
       CurrentInv, InCycle
  <2>2. o.scheduledFor > cursor
    BY <2>1 DEF TypeOK, Occurrence, Minutes, NoCursor
  <2>3. Ledger!Deliver(o)
    BY <1>12, <2>1, <2>2 DEF StartOrchestration, Ledger!Deliver
  <2> QED BY <2>1, <2>3 DEF Ledger!Next
<1>13. ASSUME NEW o \in current, NEW s \in todo, ControlService(o, s)
      PROVE [Ledger!Next]_(Ledger!vars)
  BY <1>13 DEF ControlService, Ledger!vars
<1>14. ASSUME NEW o \in current, OrchestrationSucceeds(o) PROVE [Ledger!Next]_(Ledger!vars)
  BY <1>14 DEF OrchestrationSucceeds, Ledger!vars
<1>15. ASSUME NEW o \in current, OrchestrationFails(o) PROVE [Ledger!Next]_(Ledger!vars)
  BY <1>15 DEF OrchestrationFails, Ledger!vars
<1>16. CASE BeginOverridePruning
  BY <1>16 DEF BeginOverridePruning, Ledger!vars
<1>17. ASSUME NEW s \in todo, FindOverride(s) PROVE [Ledger!Next]_(Ledger!vars)
  BY <1>17 DEF FindOverride, Ledger!vars
<1>18. ASSUME NEW s \in todo, RemoveOverrideIfMatches(s) PROVE [Ledger!Next]_(Ledger!vars)
  BY <1>18 DEF RemoveOverrideIfMatches, Ledger!vars
<1>19. ASSUME NEW s \in todo, OverridePruningFails(s) PROVE [Ledger!Next]_(Ledger!vars)
  BY <1>19 DEF OverridePruningFails, Ledger!vars
<1>20. CASE EndOverridePruning
  BY <1>20 DEF EndOverridePruning, Ledger!vars
<1>21. CASE PruneCompletedClaims
  BY <1>21 DEF PruneCompletedClaims, Ledger!vars
<1>22. CASE AdvanceCursor
  <2>1. CASE cursor # seen
    BY <1>22, <2>1 DEF AdvanceCursor, Ledger!vars
  <2>2. CASE cursor = seen
    <3>1. /\ from < until /\ until <= from + MaxInterval
          /\ cursor # NoCursor => from = cursor
      BY <1>22 DEF AdvanceCursor, SafetyInv, IntervalInv, InCycle
    <3>2. Ledger!Complete
      BY <1>22, <2>2, <3>1, SchedulerAssumption
         DEF AdvanceCursor, TypeOK, Minutes, NoCursor, Ledger!Complete
    <3> QED BY <3>2 DEF Ledger!Next
  <2> QED BY <2>1, <2>2
<1>23. CASE CycleRejects
  BY <1>23 DEF CycleRejects, Ledger!vars
<1>24. CASE Crash
  BY <1>24 DEF Crash, Ledger!vars
<1>25. CASE ClockTick
  BY <1>25 DEF ClockTick, Ledger!vars
<1>26. CASE ClockStepsBack
  BY <1>26 DEF ClockStepsBack, Ledger!vars
<1>27. ASSUME NEW s \in Services, NEW k \in OverrideKinds, NEW t \in Instants, SetOverride(s, k, t)
      PROVE [Ledger!Next]_(Ledger!vars)
  BY <1>27 DEF SetOverride, Ledger!vars
<1>28. ASSUME NEW s \in Services, CancelOverride(s) PROVE [Ledger!Next]_(Ledger!vars)
  BY <1>28 DEF CancelOverride, Ledger!vars
<1>29. ASSUME NEW s \in Services, RemovePolicy(s) PROVE [Ledger!Next]_(Ledger!vars)
  BY <1>29 DEF RemovePolicy, Ledger!vars
<1>30. ASSUME NEW s \in Services, NEW p \in Policies, UpdatePolicy(s, p)
      PROVE [Ledger!Next]_(Ledger!vars)
  BY <1>30 DEF UpdatePolicy, Ledger!vars
<1>31. ASSUME NEW s \in Services, NEW st \in {"running", "stopped"}, StatusChanges(s, st)
      PROVE [Ledger!Next]_(Ledger!vars)
  BY <1>31 DEF StatusChanges, Ledger!vars
<1>32. CASE UNCHANGED vars
  BY <1>32 DEF Ledger!vars
<1> QED
  BY <1>1, <1>2, <1>3, <1>4, <1>5, <1>6, <1>7, <1>8, <1>9, <1>10, <1>11, <1>12, <1>13,
     <1>14, <1>15, <1>16, <1>17, <1>18, <1>19, <1>20, <1>21, <1>22, <1>23, <1>24, <1>25,
     <1>26, <1>27, <1>28, <1>29, <1>30, <1>31, <1>32
     DEF Next, SchedulerStep, FaultStep, EditStep

\* The scheduler implements the ledger for every value of the constants.
THEOREM SchedulerImplementsLedger == Spec => ImplementsLedger
<1>1. Init => Ledger!Init
  BY DEF Init, NoCursor, Ledger!Init
<1> QED BY <1>1, LedgerStep, TypeCorrect, SafetyCorrect, PTL
       DEF Spec, ImplementsLedger, Ledger!Spec
=============================================================================
