---------------------------- MODULE EngineProofs ----------------------------
(***************************************************************************)
(* Proofs about Engine, for all durations, limits and bounds: IInv of      *)
(* EngineInvariant is invariant, hence the clock's books balance, results  *)
(* own up to their failures, every checkpoint can be restored and resumed  *)
(* runs have one outcome; and no interval overshoots the forces.           *)
(***************************************************************************)
EXTENDS EngineInvariant, SequenceTheorems, TLAPS

USE DEF Resolution, Inside

\* The durations of the three cadences are positive numbers.
LEMMA DurationType ==
  \A r \in Resolution : Duration[r] \in Nat \ {0}
BY DurationsAssumption DEF Duration

\* Checkpoints stay loadable while nothing is simulated or saved.
LEMMA SavedStaysSound ==
  ASSUME StateInv, UNCHANGED <<saved, world>>
  PROVE  \A c \in saved' : Sound(c)'
BY DEF StateInv, Sound

\* A whole strict engine without failures saves only sound checkpoints.
LEMMA SnapshotIsSound ==
  ASSUME StateInv, strict, Bound, receipt.intervals = ledger["tactical"],
         recorded = clock.tick, failed = 0
  PROVE  Sound(Snapshot)
<1>1. VictoryInv /\ Balanced(clock, ledger) /\ TypeOK
  BY DEF StateInv
<1>2. /\ clock \in Clock /\ clock.tick < Len(world) /\ resolution \in Resolution
      /\ battle \in BOOLEAN /\ receipt.intervals \in Nat /\ victory \in Victory
      /\ recorded \in 0..MaxTicks /\ tags \subseteq 0..MaxTicks
      /\ fights \subseteq 0..MaxTicks /\ ledger \in [Resolution -> Nat]
  BY <1>1 DEF TypeOK
<1>3. Consistent(Snapshot)
  BY <1>1, <1>2 DEF Consistent, Snapshot, VictoryInv, Balanced, Bound
<1> QED
  BY <1>1, <1>2, <1>3 DEF Sound, Snapshot

\* The constructor establishes the invariant.
LEMMA InitEstablishesInv == Init => StateInv
<1> SUFFICES ASSUME Init PROVE StateInv
  OBVIOUS
<1>1. PICK h \in Happening :
        world = <<[what |-> h, resolution |-> resolution, elapsed |-> 0]>>
  BY DEF Init
<1>2. resolution \in Resolution /\ battle \in BOOLEAN
  BY DEF Init
<1>3. world \in Seq(Tick) /\ Len(world) = 1
  BY <1>1, <1>2 DEF Tick
<1>a. 0 \in 0..MaxTicks
  BY LimitsAssumption
<1>b. clock \in Clock /\ victory \in Victory
  BY <1>2, <1>a DEF Init, Clock, Victory
<1>c. receipt \in [state : {"committed", "open", "poisoned"}, intervals : Nat]
  BY DEF Init
<1>d. ledger \in [Resolution -> Nat] /\ clock.tick < Len(world)
  BY <1>3 DEF Init
<1>e. recorded \in 0..MaxTicks /\ tags \subseteq 0..MaxTicks /\ fights \subseteq 0..MaxTicks
  BY <1>a DEF Init
<1>4. TypeOK /\ entry.tick \in Nat
  BY <1>2, <1>3, <1>b, <1>c, <1>d, <1>e DEF Init, TypeOK
<1>5. StageInv /\ EvidenceInv /\ VictoryInv
  BY DEF Init, StageInv, EvidenceInv, Whole, VictoryInv
<1>6. Balanced(clock, ledger)
  BY DurationsAssumption DEF Init, Balanced
<1> QED
  BY <1>4, <1>5, <1>6 DEF StateInv, Init, ResultsAccount

\* Entering run() changes nothing but the caller.
LEMMA RunKeepsInv ==
  ASSUME StateInv, Run
  PROVE  StateInv'
<1>1. TypeOK' /\ entry.tick' \in Nat
  BY LimitsAssumption, DurationType DEF StateInv, TypeOK, Clock, Victory, Run, stateVars, healthVars, outVars, historyVars
<1>2. StageInv'
  BY DEF StateInv, TypeOK, Clock, StageInv, Bound, Run, stateVars, healthVars, outVars, historyVars
<1>3. EvidenceInv'
  BY DEF StateInv, TypeOK, StageInv, EvidenceInv, Whole, Run, stateVars, healthVars, outVars, historyVars
<1>4. Balanced(clock, ledger)'
  BY DEF StateInv, Balanced, Run, stateVars, healthVars, outVars, historyVars
<1>5. VictoryInv'
  BY DEF StateInv, StageInv, VictoryInv, Run, stateVars, healthVars, outVars, historyVars
<1>6. \A c \in saved' : Sound(c)'
  BY SavedStaysSound DEF Run, stateVars, healthVars, outVars, historyVars
<1>7. ResultsAccount'
  BY DEF StateInv, ResultsAccount, Run, stateVars, healthVars, outVars, historyVars
<1> QED
  BY <1>1, <1>2, <1>3, <1>4, <1>5, <1>6, <1>7 DEF StateInv

\* A step that finds the game over, or ends it at the tick limit.
LEMMA StepOverKeepsInv ==
  ASSUME StateInv, StepOver
  PROVE  StateInv'
<1>1. TypeOK' /\ entry.tick' \in Nat
  BY LimitsAssumption, DurationType DEF StateInv, TypeOK, Clock, Victory, StepOver, StepGate, Over, stateVars, healthVars, outVars, historyVars
<1>2. StageInv'
  BY DEF StateInv, TypeOK, Clock, StageInv, Bound, StepOver, StepGate, Over, stateVars, healthVars, outVars, historyVars
<1>3. EvidenceInv'
  BY DEF StateInv, TypeOK, StageInv, EvidenceInv, Whole, StepOver, StepGate, Over, stateVars, healthVars, outVars, historyVars
<1>4. Balanced(clock, ledger)'
  BY DEF StateInv, Balanced, StepOver, StepGate, Over, stateVars, healthVars, outVars, historyVars
<1>5. VictoryInv'
  BY DEF StateInv, StageInv, VictoryInv, StepOver, StepGate, Over, stateVars, healthVars, outVars, historyVars
<1>6. \A c \in saved' : Sound(c)'
  BY SavedStaysSound DEF StepOver, StepGate, Over, stateVars, healthVars, outVars, historyVars
<1>7. ResultsAccount'
  BY DEF StateInv, ResultsAccount, StepOver, StepGate, Over, stateVars, healthVars, outVars, historyVars
<1> QED
  BY <1>1, <1>2, <1>3, <1>4, <1>5, <1>6, <1>7 DEF StateInv

\* A rejected interval leaves the engine whole.
LEMMA PreflightFailsKeepsInv ==
  ASSUME StateInv, PreflightFails
  PROVE  StateInv'
<1>1. TypeOK' /\ entry.tick' \in Nat
  BY LimitsAssumption, DurationType DEF StateInv, TypeOK, Clock, Victory, PreflightFails, StepGate, Over, stateVars, healthVars, outVars, historyVars
<1>2. StageInv'
  BY DEF StateInv, TypeOK, Clock, StageInv, Bound, PreflightFails, StepGate, Over, stateVars, healthVars, outVars, historyVars
<1>3. EvidenceInv'
  BY DEF StateInv, TypeOK, StageInv, EvidenceInv, Whole, PreflightFails, StepGate, Over, stateVars, healthVars, outVars, historyVars
<1>4. Balanced(clock, ledger)'
  BY DEF StateInv, Balanced, PreflightFails, StepGate, Over, stateVars, healthVars, outVars, historyVars
<1>5. VictoryInv'
  BY DEF StateInv, StageInv, VictoryInv, PreflightFails, StepGate, Over, stateVars, healthVars, outVars, historyVars
<1>6. \A c \in saved' : Sound(c)'
  BY SavedStaysSound DEF PreflightFails, StepGate, Over, stateVars, healthVars, outVars, historyVars
<1>7. ResultsAccount'
  BY DEF StateInv, ResultsAccount, PreflightFails, StepGate, Over, stateVars, healthVars, outVars, historyVars
<1> QED
  BY <1>1, <1>2, <1>3, <1>4, <1>5, <1>6, <1>7 DEF StateInv

\* The clock and the books advance by the same duration.
LEMMA BeginIntervalKeepsInv ==
  ASSUME StateInv, BeginInterval
  PROVE  StateInv'
<1> DEFINE r == SelectResolution
           dur == Duration[r]
<1>a. r \in Resolution
  BY DEF SelectResolution
<1>b. dur \in Nat \ {0}
  BY <1>a, DurationType
<1>t. TypeOK /\ StageInv /\ EvidenceInv /\ Balanced(clock, ledger) /\ ResultsAccount
  BY DEF StateInv
<1>c. /\ resolution' = r
      /\ clock' = [tick |-> clock.tick + 1, elapsed |-> clock.elapsed + dur, dur |-> dur]
      /\ ledger' = [ledger EXCEPT ![r] = @ + 1]
      /\ pc' = "interval" /\ entry'.tick = clock.tick
      /\ entry' = [tick |-> clock.tick, resolution |-> resolution, dur |-> clock.dur]
      /\ call' \in {"step", "run"}
      /\ pc = "idle" /\ ~fatal /\ ~Over /\ clock.tick < MaxTicks
  BY DEF BeginInterval, StepGate
<1>d. /\ UNCHANGED <<strict, battle, receipt, victory, recorded, tags, fatal, suppressed,
                     failed, saved, frame, results, fights, late, faults, restores, tampers>>
  BY DEF BeginInterval, healthVars, outVars
<1>e. clock.tick \in 0..MaxTicks /\ clock.elapsed \in Nat
  BY <1>t DEF TypeOK, Clock
<1>f. world' \in Seq(Tick) /\ Len(world') >= Len(world) /\ clock.tick + 1 < Len(world')
  <2>1. world \in Seq(Tick) /\ clock.tick < Len(world) /\ Len(world) \in Nat
    BY <1>t DEF TypeOK
  <2>2. CASE Len(world) > clock.tick + 1
    BY <2>1, <2>2, <1>e DEF BeginInterval
  <2>3. CASE ~(Len(world) > clock.tick + 1)
    <3>1. PICK h \in Happening :
            world' = Append(world, [what |-> h, resolution |-> resolution',
                                    elapsed |-> clock'.elapsed])
      BY <2>3 DEF BeginInterval
    <3>2. [what |-> h, resolution |-> resolution', elapsed |-> clock'.elapsed] \in Tick
      BY <1>a, <1>b, <1>c, <1>e DEF Tick
    <3>3. Len(world') = Len(world) + 1 /\ world' \in Seq(Tick)
      BY <2>1, <3>1, <3>2
    <3> QED
      BY <2>1, <3>3, <1>e
  <2> QED
    BY <2>2, <2>3
<1>g. ledger \in [Resolution -> Nat] /\ ledger' \in [Resolution -> Nat]
  BY <1>a, <1>c, <1>t DEF TypeOK
<1> HIDE DEF r, dur
<1>1. TypeOK' /\ entry.tick' \in Nat
  <2>1. clock' \in Clock
    BY <1>a, <1>b, <1>c, <1>e, LimitsAssumption DEF Clock, dur
  <2> QED
    BY <2>1, <1>a, <1>c, <1>d, <1>e, <1>f, <1>g, <1>t DEF TypeOK
<1>2. StageInv'
  BY <1>a, <1>c, <1>d, <1>e, <1>t DEF StageInv, Bound, Over, dur
<1>3. EvidenceInv'
  <2>1. receipt.intervals = ledger["tactical"] /\ failed = suppressed
    BY <1>c, <1>t DEF EvidenceInv, Whole
  <2>2. receipt.state # "poisoned"
    BY <1>c, <1>t DEF EvidenceInv
  <2>3. ledger'["tactical"] = ledger["tactical"] + (IF r = "tactical" THEN 1 ELSE 0)
    BY <1>a, <1>c, <1>g
  <2> QED
    BY <2>1, <2>2, <2>3, <1>c, <1>d, <1>t DEF EvidenceInv, Whole
<1>4. Balanced(clock, ledger)'
  <2>1. /\ clock'.tick = clock.tick + 1 /\ clock'.elapsed = clock.elapsed + dur
        /\ clock'.tick # 0 /\ clock'.elapsed # 0
    BY <1>b, <1>c, <1>e
  <2>2. CASE r = "strategic"
    <3>1. dur = StrategicS
      BY <2>2 DEF dur, Duration
    <3>2. /\ ledger'["strategic"] = ledger["strategic"] + 1
          /\ ledger'["operational"] = ledger["operational"]
          /\ ledger'["tactical"] = ledger["tactical"]
      BY <2>2, <1>c, <1>g
    <3>3. StrategicS * (ledger["strategic"] + 1) = StrategicS * ledger["strategic"] + StrategicS
      BY <1>g, DurationsAssumption
    <3>4. clock'.elapsed = StrategicS * ledger'["strategic"]
            + OperationalS * ledger'["operational"] + TacticalS * ledger'["tactical"]
      <4>1. clock.elapsed = StrategicS * ledger["strategic"]
              + OperationalS * ledger["operational"] + TacticalS * ledger["tactical"]
        BY <1>t DEF Balanced
      <4>2. /\ StrategicS * ledger["strategic"] \in Nat
            /\ OperationalS * ledger["operational"] \in Nat
            /\ TacticalS * ledger["tactical"] \in Nat
        BY <1>g, DurationsAssumption
      <4> QED
        BY <2>1, <3>1, <3>2, <3>3, <4>1, <4>2, DurationsAssumption
    <3>5. clock'.tick = ledger'["strategic"] + ledger'["operational"] + ledger'["tactical"]
      BY <2>1, <3>2, <1>t, <1>g DEF Balanced
    <3> QED
      BY <2>1, <3>4, <3>5 DEF Balanced
  <2>3. CASE r = "operational"
    <3>1. dur = OperationalS
      BY <2>3 DEF dur, Duration
    <3>2. /\ ledger'["strategic"] = ledger["strategic"]
          /\ ledger'["operational"] = ledger["operational"] + 1
          /\ ledger'["tactical"] = ledger["tactical"]
      BY <2>3, <1>c, <1>g
    <3>3. OperationalS * (ledger["operational"] + 1)
            = OperationalS * ledger["operational"] + OperationalS
      BY <1>g, DurationsAssumption
    <3>4. clock'.elapsed = StrategicS * ledger'["strategic"]
            + OperationalS * ledger'["operational"] + TacticalS * ledger'["tactical"]
      <4>1. clock.elapsed = StrategicS * ledger["strategic"]
              + OperationalS * ledger["operational"] + TacticalS * ledger["tactical"]
        BY <1>t DEF Balanced
      <4>2. /\ StrategicS * ledger["strategic"] \in Nat
            /\ OperationalS * ledger["operational"] \in Nat
            /\ TacticalS * ledger["tactical"] \in Nat
        BY <1>g, DurationsAssumption
      <4> QED
        BY <2>1, <3>1, <3>2, <3>3, <4>1, <4>2, DurationsAssumption
    <3>5. clock'.tick = ledger'["strategic"] + ledger'["operational"] + ledger'["tactical"]
      BY <2>1, <3>2, <1>t, <1>g DEF Balanced
    <3> QED
      BY <2>1, <3>4, <3>5 DEF Balanced
  <2>4. CASE r = "tactical"
    <3>1. dur = TacticalS
      BY <2>4 DEF dur, Duration
    <3>2. /\ ledger'["strategic"] = ledger["strategic"]
          /\ ledger'["operational"] = ledger["operational"]
          /\ ledger'["tactical"] = ledger["tactical"] + 1
      BY <2>4, <1>c, <1>g
    <3>3. TacticalS * (ledger["tactical"] + 1) = TacticalS * ledger["tactical"] + TacticalS
      BY <1>g, DurationsAssumption
    <3>4. clock'.elapsed = StrategicS * ledger'["strategic"]
            + OperationalS * ledger'["operational"] + TacticalS * ledger'["tactical"]
      <4>1. clock.elapsed = StrategicS * ledger["strategic"]
              + OperationalS * ledger["operational"] + TacticalS * ledger["tactical"]
        BY <1>t DEF Balanced
      <4>2. /\ StrategicS * ledger["strategic"] \in Nat
            /\ OperationalS * ledger["operational"] \in Nat
            /\ TacticalS * ledger["tactical"] \in Nat
        BY <1>g, DurationsAssumption
      <4> QED
        BY <2>1, <3>1, <3>2, <3>3, <4>1, <4>2, DurationsAssumption
    <3>5. clock'.tick = ledger'["strategic"] + ledger'["operational"] + ledger'["tactical"]
      BY <2>1, <3>2, <1>t, <1>g DEF Balanced
    <3> QED
      BY <2>1, <3>4, <3>5 DEF Balanced
  <2> QED
    BY <1>a, <2>2, <2>3, <2>4
<1>5. VictoryInv'
  BY <1>c, <1>d DEF StateInv, Over, VictoryInv
<1>6. \A c \in saved' : Sound(c)'
  <2> SUFFICES ASSUME NEW c \in saved' PROVE Sound(c)'
    OBVIOUS
  <2>1. Sound(c)
    BY <1>d DEF StateInv
  <2>2. Len(world) \in Nat /\ Len(world') \in Nat
    BY <1>f, <1>t DEF TypeOK
  <2>3. c.clock.tick < Len(world')
    BY <2>1, <2>2, <1>f DEF Sound, Clock
  <2> QED
    BY <2>1, <2>3 DEF Sound
<1>7. ResultsAccount'
  BY <1>d, <1>t DEF ResultsAccount
<1> QED
  BY <1>1, <1>2, <1>3, <1>4, <1>5, <1>6, <1>7 DEF StateInv

\* The campaign level touches only the battle.
LEMMA CampaignKeepsInv ==
  ASSUME StateInv, Campaign
  PROVE  StateInv'
<1>1. TypeOK' /\ entry.tick' \in Nat
  BY LimitsAssumption, DurationType DEF StateInv, TypeOK, Clock, Victory, Campaign, stateVars, healthVars, outVars, historyVars
<1>2. StageInv'
  BY DEF StateInv, TypeOK, Clock, StageInv, Bound, Campaign, stateVars, healthVars, outVars, historyVars
<1>3. EvidenceInv'
  BY DEF StateInv, TypeOK, StageInv, EvidenceInv, Whole, Campaign, stateVars, healthVars, outVars, historyVars
<1>4. Balanced(clock, ledger)'
  BY DEF StateInv, Balanced, Campaign, stateVars, healthVars, outVars, historyVars
<1>5. VictoryInv'
  BY DEF StateInv, StageInv, VictoryInv, Campaign, stateVars, healthVars, outVars, historyVars
<1>6. \A c \in saved' : Sound(c)'
  BY SavedStaysSound DEF Campaign, stateVars, healthVars, outVars, historyVars
<1>7. ResultsAccount'
  BY DEF StateInv, ResultsAccount, Campaign, stateVars, healthVars, outVars, historyVars
<1> QED
  BY <1>1, <1>2, <1>3, <1>4, <1>5, <1>6, <1>7 DEF StateInv

\* Opening the transaction.
LEMMA OpenReceiptKeepsInv ==
  ASSUME StateInv, OpenReceipt
  PROVE  StateInv'
<1>1. TypeOK' /\ entry.tick' \in Nat
  BY LimitsAssumption, DurationType DEF StateInv, TypeOK, Clock, Victory, OpenReceipt, stateVars, healthVars, outVars, historyVars
<1>2. StageInv'
  BY DEF StateInv, TypeOK, Clock, StageInv, Bound, OpenReceipt, stateVars, healthVars, outVars, historyVars
<1>3. EvidenceInv'
  BY DEF StateInv, TypeOK, StageInv, EvidenceInv, Whole, OpenReceipt, stateVars, healthVars, outVars, historyVars
<1>4. Balanced(clock, ledger)'
  BY DEF StateInv, Balanced, OpenReceipt, stateVars, healthVars, outVars, historyVars
<1>5. VictoryInv'
  BY DEF StateInv, StageInv, VictoryInv, OpenReceipt, stateVars, healthVars, outVars, historyVars
<1>6. \A c \in saved' : Sound(c)'
  BY SavedStaysSound DEF OpenReceipt, stateVars, healthVars, outVars, historyVars
<1>7. ResultsAccount'
  BY DEF StateInv, ResultsAccount, OpenReceipt, stateVars, healthVars, outVars, historyVars
<1> QED
  BY <1>1, <1>2, <1>3, <1>4, <1>5, <1>6, <1>7 DEF StateInv

\* A fought interval is committed to the receipt.
LEMMA FightKeepsInv ==
  ASSUME StateInv, Fight
  PROVE  StateInv'
<1>1. TypeOK' /\ entry.tick' \in Nat
  <2>1. /\ clock.tick \in 0..MaxTicks /\ recorded \in 0..MaxTicks
        /\ tags \subseteq 0..MaxTicks /\ fights \subseteq 0..MaxTicks
        /\ receipt.intervals \in Nat
    BY DEF StateInv, TypeOK, Clock
  <2>2. /\ tags' \subseteq 0..MaxTicks /\ fights' \subseteq 0..MaxTicks
    BY <2>1 DEF Fight
  <2>3. receipt' \in [state : {"committed", "open", "poisoned"}, intervals : Nat]
    BY <2>1 DEF Fight
  <2>4. battle' \in BOOLEAN
    BY DEF Fight
  <2> QED
    BY <2>2, <2>3, <2>4 DEF StateInv, TypeOK, Fight, healthVars, outVars
<1>2. StageInv'
  BY DEF StateInv, TypeOK, Clock, StageInv, Bound, Fight, stateVars, healthVars, outVars, historyVars
<1>3. EvidenceInv'
  BY DEF StateInv, TypeOK, StageInv, EvidenceInv, Whole, Fight, stateVars, healthVars, outVars, historyVars
<1>4. Balanced(clock, ledger)'
  BY DEF StateInv, Balanced, Fight, stateVars, healthVars, outVars, historyVars
<1>5. VictoryInv'
  BY DEF StateInv, StageInv, VictoryInv, Fight, stateVars, healthVars, outVars, historyVars
<1>6. \A c \in saved' : Sound(c)'
  BY SavedStaysSound DEF Fight, stateVars, healthVars, outVars, historyVars
<1>7. ResultsAccount'
  BY DEF StateInv, ResultsAccount, Fight, stateVars, healthVars, outVars, historyVars
<1> QED
  BY <1>1, <1>2, <1>3, <1>4, <1>5, <1>6, <1>7 DEF StateInv

\* The victory evaluation records the tick it ends.
LEMMA EvaluateKeepsInv ==
  ASSUME StateInv, Evaluate
  PROVE  StateInv'
<1>1. TypeOK' /\ entry.tick' \in Nat
  <2>1. clock.tick \in 0..MaxTicks
    BY DEF StateInv, TypeOK, Clock
  <2>2. victory' \in Victory /\ recorded' \in 0..MaxTicks
    <3>1. victory \in Victory /\ recorded' = clock.tick
      BY DEF StateInv, TypeOK, Evaluate
    <3>2. \/ victory' = [type |-> "condition", tick |-> clock.tick]
          \/ victory' = victory
      BY DEF Evaluate
    <3> QED
      BY <2>1, <3>1, <3>2 DEF Victory
  <2>3. pc' \in {"idle", "stepped", "finalize", "conclude"} /\ pc = "evaluate"
    BY DEF Evaluate, Return
  <2> QED
    BY <2>2, <2>3 DEF StateInv, TypeOK, Evaluate, Return, healthVars, outVars, historyVars
<1>2. StageInv'
  BY DEF StateInv, TypeOK, Clock, StageInv, Bound, Evaluate, Return, stateVars, healthVars, outVars, historyVars
<1>3. EvidenceInv'
  BY DEF StateInv, TypeOK, StageInv, EvidenceInv, Whole, Evaluate, Return, stateVars, healthVars, outVars, historyVars
<1>4. Balanced(clock, ledger)'
  BY DEF StateInv, Balanced, Evaluate, Return, stateVars, healthVars, outVars, historyVars
<1>5. VictoryInv'
  BY DEF StateInv, StageInv, VictoryInv, Evaluate, Return, stateVars, healthVars, outVars, historyVars
<1>6. \A c \in saved' : Sound(c)'
  BY SavedStaysSound DEF Evaluate, Return, stateVars, healthVars, outVars, historyVars
<1>7. ResultsAccount'
  BY DEF StateInv, ResultsAccount, Evaluate, Return, stateVars, healthVars, outVars, historyVars
<1> QED
  BY <1>1, <1>2, <1>3, <1>4, <1>5, <1>6, <1>7 DEF StateInv

\* An automatic checkpoint of an interval that is complete.
LEMMA ConcludeKeepsInv ==
  ASSUME StateInv, Conclude
  PROVE  StateInv'
<1>1. TypeOK' /\ entry.tick' \in Nat
  BY LimitsAssumption, DurationType DEF StateInv, TypeOK, Clock, Victory, Conclude, Return, stateVars, healthVars, outVars, historyVars
<1>2. StageInv'
  BY DEF StateInv, TypeOK, Clock, StageInv, Bound, Conclude, Return, stateVars, healthVars, outVars, historyVars
<1>3. EvidenceInv'
  BY DEF StateInv, TypeOK, StageInv, EvidenceInv, Whole, Conclude, Return, stateVars, healthVars, outVars, historyVars
<1>4. Balanced(clock, ledger)'
  BY DEF StateInv, Balanced, Conclude, Return, stateVars, healthVars, outVars, historyVars
<1>5. VictoryInv'
  BY DEF StateInv, StageInv, VictoryInv, Conclude, Return, stateVars, healthVars, outVars, historyVars
<1>6. \A c \in saved' : Sound(c)'
  <2>1. CASE ~CheckpointDue
    BY <2>1, SavedStaysSound DEF Conclude, historyVars
  <2>2. CASE CheckpointDue
    <3>1. Sound(Snapshot)
      <4>1. strict /\ pc = "conclude"
        BY <2>2 DEF Conclude
      <4>2. Bound /\ receipt.intervals = ledger["tactical"] /\ recorded = clock.tick
        BY <4>1 DEF StateInv, StageInv, EvidenceInv
      <4>3. failed = 0
        BY <4>1 DEF StateInv, EvidenceInv
      <4> QED
        BY <4>1, <4>2, <4>3, SnapshotIsSound
    <3>2. \A c \in saved \union {Snapshot} : Sound(c)
      BY <3>1 DEF StateInv
    <3>3. saved' = saved \union {Snapshot} /\ world' = world
      BY <2>2 DEF Conclude, historyVars
    <3> QED
      BY <3>2, <3>3 DEF Sound
  <2> QED
    BY <2>1, <2>2
<1>7. ResultsAccount'
  BY DEF StateInv, ResultsAccount, Conclude, Return, stateVars, healthVars, outVars, historyVars
<1> QED
  BY <1>1, <1>2, <1>3, <1>4, <1>5, <1>6, <1>7 DEF StateInv

\* The refusal is an exception after the commitment.
LEMMA CheckpointRefusedKeepsInv ==
  ASSUME StateInv, CheckpointRefused
  PROVE  StateInv'
<1>1. TypeOK' /\ entry.tick' \in Nat
  BY LimitsAssumption, DurationType DEF StateInv, TypeOK, Clock, Victory, CheckpointRefused, CheckpointDue, stateVars, healthVars, outVars, historyVars
<1>2. StageInv'
  BY DEF StateInv, TypeOK, Clock, StageInv, Bound, CheckpointRefused, CheckpointDue, stateVars, healthVars, outVars, historyVars
<1>3. EvidenceInv'
  BY DEF StateInv, TypeOK, StageInv, EvidenceInv, Whole, CheckpointRefused, CheckpointDue, stateVars, healthVars, outVars, historyVars
<1>4. Balanced(clock, ledger)'
  BY DEF StateInv, Balanced, CheckpointRefused, CheckpointDue, stateVars, healthVars, outVars, historyVars
<1>5. VictoryInv'
  BY DEF StateInv, StageInv, VictoryInv, CheckpointRefused, CheckpointDue, stateVars, healthVars, outVars, historyVars
<1>6. \A c \in saved' : Sound(c)'
  BY SavedStaysSound DEF CheckpointRefused, CheckpointDue, stateVars, healthVars, outVars, historyVars
<1>7. ResultsAccount'
  BY DEF StateInv, ResultsAccount, CheckpointRefused, CheckpointDue, stateVars, healthVars, outVars, historyVars
<1> QED
  BY <1>1, <1>2, <1>3, <1>4, <1>5, <1>6, <1>7 DEF StateInv

\* A suppressed failure is counted on both sides of the books.
LEMMA SuppressKeepsInv ==
  ASSUME StateInv, Suppress
  PROVE  StateInv'
<1>1. TypeOK' /\ entry.tick' \in Nat
  BY LimitsAssumption, DurationType DEF StateInv, TypeOK, Clock, Victory, Suppress, stateVars, healthVars, outVars, historyVars
<1>2. StageInv'
  BY DEF StateInv, TypeOK, Clock, StageInv, Bound, Suppress, stateVars, healthVars, outVars, historyVars
<1>3. EvidenceInv'
  BY DEF StateInv, TypeOK, StageInv, EvidenceInv, Whole, Suppress, stateVars, healthVars, outVars, historyVars
<1>4. Balanced(clock, ledger)'
  BY DEF StateInv, Balanced, Suppress, stateVars, healthVars, outVars, historyVars
<1>5. VictoryInv'
  BY DEF StateInv, StageInv, VictoryInv, Suppress, stateVars, healthVars, outVars, historyVars
<1>6. \A c \in saved' : Sound(c)'
  BY SavedStaysSound DEF Suppress, stateVars, healthVars, outVars, historyVars
<1>7. ResultsAccount'
  BY DEF StateInv, ResultsAccount, Suppress, stateVars, healthVars, outVars, historyVars
<1> QED
  BY <1>1, <1>2, <1>3, <1>4, <1>5, <1>6, <1>7 DEF StateInv

\* An exception out of a stage of the interval.
LEMMA FailKeepsInv ==
  ASSUME StateInv, Fail
  PROVE  StateInv'
<1>1. TypeOK' /\ entry.tick' \in Nat
  <2>1. /\ receipt' \in [state : {"committed", "open", "poisoned"}, intervals : Nat]
        /\ receipt'.state # "open"
    <3>1. /\ receipt \in [state : {"committed", "open", "poisoned"}, intervals : Nat]
          /\ receipt.state = "open" <=> pc = "tactical"
      BY DEF StateInv, TypeOK
    <3>2. CASE pc = "tactical"
      BY <3>1, <3>2 DEF Fail
    <3>3. CASE pc # "tactical"
      BY <3>1, <3>3 DEF Fail
    <3> QED
      BY <3>2, <3>3
  <2>2. failed' \in Nat /\ pc' = "raising"
    BY DEF StateInv, TypeOK, Fail
  <2> QED
    BY <2>1, <2>2 DEF StateInv, TypeOK, Fail, outVars
<1>2. StageInv'
  BY DEF StateInv, TypeOK, Clock, StageInv, Bound, Fail, stateVars, healthVars, outVars, historyVars
<1>3. EvidenceInv'
  BY DEF StateInv, TypeOK, StageInv, EvidenceInv, Whole, Fail, stateVars, healthVars, outVars, historyVars
<1>4. Balanced(clock, ledger)'
  BY DEF StateInv, Balanced, Fail, stateVars, healthVars, outVars, historyVars
<1>5. VictoryInv'
  BY DEF StateInv, StageInv, VictoryInv, Fail, stateVars, healthVars, outVars, historyVars
<1>6. \A c \in saved' : Sound(c)'
  BY SavedStaysSound DEF Fail, stateVars, healthVars, outVars, historyVars
<1>7. ResultsAccount'
  BY DEF StateInv, ResultsAccount, Fail, stateVars, healthVars, outVars, historyVars
<1> QED
  BY <1>1, <1>2, <1>3, <1>4, <1>5, <1>6, <1>7 DEF StateInv

\* The exception is latched if the clock had moved.
LEMMA RaiseKeepsInv ==
  ASSUME StateInv, Raise
  PROVE  StateInv'
<1>1. TypeOK' /\ entry.tick' \in Nat
  BY LimitsAssumption, DurationType DEF StateInv, TypeOK, Clock, Victory, Raise, stateVars, healthVars, outVars, historyVars
<1>2. StageInv'
  BY DEF StateInv, TypeOK, Clock, StageInv, Bound, Raise, stateVars, healthVars, outVars, historyVars
<1>3. EvidenceInv'
  BY DEF StateInv, TypeOK, StageInv, EvidenceInv, Whole, Raise, stateVars, healthVars, outVars, historyVars
<1>4. Balanced(clock, ledger)'
  BY DEF StateInv, Balanced, Raise, stateVars, healthVars, outVars, historyVars
<1>5. VictoryInv'
  BY DEF StateInv, StageInv, VictoryInv, Raise, stateVars, healthVars, outVars, historyVars
<1>6. \A c \in saved' : Sound(c)'
  BY SavedStaysSound DEF Raise, stateVars, healthVars, outVars, historyVars
<1>7. ResultsAccount'
  BY DEF StateInv, ResultsAccount, Raise, stateVars, healthVars, outVars, historyVars
<1> QED
  BY <1>1, <1>2, <1>3, <1>4, <1>5, <1>6, <1>7 DEF StateInv

\* A map frame only reads.
LEMMA CaptureFrameKeepsInv ==
  ASSUME StateInv, CaptureFrame
  PROVE  StateInv'
<1>1. TypeOK' /\ entry.tick' \in Nat
  BY LimitsAssumption, DurationType DEF StateInv, TypeOK, Clock, Victory, CaptureFrame, stateVars, healthVars, outVars, historyVars
<1>2. StageInv'
  BY DEF StateInv, TypeOK, Clock, StageInv, Bound, CaptureFrame, stateVars, healthVars, outVars, historyVars
<1>3. EvidenceInv'
  BY DEF StateInv, TypeOK, StageInv, EvidenceInv, Whole, CaptureFrame, stateVars, healthVars, outVars, historyVars
<1>4. Balanced(clock, ledger)'
  BY DEF StateInv, Balanced, CaptureFrame, stateVars, healthVars, outVars, historyVars
<1>5. VictoryInv'
  BY DEF StateInv, StageInv, VictoryInv, CaptureFrame, stateVars, healthVars, outVars, historyVars
<1>6. \A c \in saved' : Sound(c)'
  BY SavedStaysSound DEF CaptureFrame, stateVars, healthVars, outVars, historyVars
<1>7. ResultsAccount'
  BY DEF StateInv, ResultsAccount, CaptureFrame, stateVars, healthVars, outVars, historyVars
<1> QED
  BY <1>1, <1>2, <1>3, <1>4, <1>5, <1>6, <1>7 DEF StateInv

\* A result is published by an engine that is whole.
LEMMA FinalizeKeepsInv ==
  ASSUME StateInv, Finalize
  PROVE  StateInv'
<1>1. TypeOK' /\ entry.tick' \in Nat
  BY LimitsAssumption, DurationType DEF StateInv, TypeOK, Clock, Victory, Finalize, Healthy, stateVars, healthVars, outVars, historyVars
<1>2. StageInv'
  BY DEF StateInv, TypeOK, Clock, StageInv, Bound, Finalize, Healthy, stateVars, healthVars, outVars, historyVars
<1>3. EvidenceInv'
  BY DEF StateInv, TypeOK, StageInv, EvidenceInv, Whole, Finalize, Healthy, stateVars, healthVars, outVars, historyVars
<1>4. Balanced(clock, ledger)'
  BY DEF StateInv, Balanced, Finalize, Healthy, stateVars, healthVars, outVars, historyVars
<1>5. VictoryInv'
  BY DEF StateInv, StageInv, VictoryInv, Finalize, Healthy, stateVars, healthVars, outVars, historyVars
<1>6. \A c \in saved' : Sound(c)'
  BY SavedStaysSound DEF Finalize, Healthy, stateVars, healthVars, outVars, historyVars
<1>7. ResultsAccount'
  <2>1. failed = suppressed
    BY DEF StateInv, EvidenceInv, Whole, Finalize, Healthy
  <2> QED
    BY <2>1 DEF StateInv, ResultsAccount, Finalize, Outcome
<1> QED
  BY <1>1, <1>2, <1>3, <1>4, <1>5, <1>6, <1>7 DEF StateInv

\* A consumer's checkpoint of an engine that is whole.
LEMMA CheckpointKeepsInv ==
  ASSUME StateInv, Checkpoint
  PROVE  StateInv'
<1>1. TypeOK' /\ entry.tick' \in Nat
  BY LimitsAssumption, DurationType DEF StateInv, TypeOK, Clock, Victory, Checkpoint, stateVars, healthVars, outVars, historyVars
<1>2. StageInv'
  BY DEF StateInv, TypeOK, Clock, StageInv, Bound, Checkpoint, stateVars, healthVars, outVars, historyVars
<1>3. EvidenceInv'
  BY DEF StateInv, TypeOK, StageInv, EvidenceInv, Whole, Checkpoint, stateVars, healthVars, outVars, historyVars
<1>4. Balanced(clock, ledger)'
  BY DEF StateInv, Balanced, Checkpoint, stateVars, healthVars, outVars, historyVars
<1>5. VictoryInv'
  BY DEF StateInv, StageInv, VictoryInv, Checkpoint, stateVars, healthVars, outVars, historyVars
<1>6. \A c \in saved' : Sound(c)'
  <2>1. Sound(Snapshot)
    <3>1. strict /\ pc = "idle" /\ ~fatal /\ Bound
      BY DEF Checkpoint, Healthy
    <3>2. receipt.intervals = ledger["tactical"] /\ recorded = clock.tick /\ failed = 0
      BY <3>1 DEF StateInv, EvidenceInv, Whole
    <3> QED
      BY <3>1, <3>2, SnapshotIsSound
  <2>2. \A c \in saved \union {Snapshot} : Sound(c)
    BY <2>1 DEF StateInv
  <2>3. saved' = saved \union {Snapshot} /\ world' = world
    BY DEF Checkpoint, historyVars
  <2> QED
    BY <2>2, <2>3 DEF Sound
<1>7. ResultsAccount'
  BY DEF StateInv, ResultsAccount, Checkpoint, stateVars, healthVars, outVars, historyVars
<1> QED
  BY <1>1, <1>2, <1>3, <1>4, <1>5, <1>6, <1>7 DEF StateInv

\* A sound checkpoint makes the engine whole again.
LEMMA RestoreKeepsInv ==
  ASSUME StateInv, NEW k \in saved, Restore(k)
  PROVE  StateInv'
<1>a. Sound(k)
  BY DEF StateInv
<1>b. /\ clock' = k.clock /\ resolution' = k.resolution /\ battle' = k.battle
      /\ receipt' = [state |-> "committed", intervals |-> k.intervals]
      /\ victory' = k.victory /\ recorded' = k.recorded /\ tags' = k.tags
      /\ ledger' = k.ledger /\ fights' = k.fights
      /\ UNCHANGED <<strict, saved, frame, results, pc, call, entry, world>>
      /\ pc = "idle" /\ strict
  BY DEF Restore, Load, outVars
<1>c. /\ fatal' \in BOOLEAN /\ suppressed' = 0 /\ failed' = 0
  <2>1. CASE Healthy /\ UNCHANGED healthVars
    BY <2>1, <1>b DEF StateInv, TypeOK, EvidenceInv, Whole, Healthy, healthVars
  <2>2. CASE fatal' = FALSE /\ suppressed' = 0 /\ failed' = 0
    BY <2>2
  <2> QED
    BY <2>1, <2>2 DEF Restore
<1>1. TypeOK' /\ entry.tick' \in Nat
  BY <1>a, <1>b, <1>c, LimitsAssumption DEF StateInv, TypeOK, Sound
<1>2. StageInv'
  BY <1>b DEF StateInv, StageInv
<1>3. EvidenceInv'
  BY <1>a, <1>b, <1>c DEF EvidenceInv, Whole, Sound, Consistent
<1>4. Balanced(clock, ledger)'
  BY <1>a, <1>b DEF Sound, Balanced
<1>5. VictoryInv'
  BY <1>a, <1>b DEF Sound, Consistent, VictoryInv
<1>6. \A c \in saved' : Sound(c)'
  BY <1>b, SavedStaysSound
<1>7. ResultsAccount'
  BY <1>b DEF StateInv, ResultsAccount
<1> QED
  BY <1>1, <1>2, <1>3, <1>4, <1>5, <1>6, <1>7 DEF StateInv

\* A changed tick duration disturbs no books.
LEMMA TamperKeepsInv ==
  ASSUME StateInv, NEW d \in {Duration[r] : r \in Resolution}, Tamper(d)
  PROVE  StateInv'
<1>1. TypeOK' /\ entry.tick' \in Nat
  BY LimitsAssumption, DurationType DEF StateInv, TypeOK, Clock, Victory, Tamper, stateVars, healthVars, outVars, historyVars
<1>2. StageInv'
  BY DEF StateInv, TypeOK, Clock, StageInv, Bound, Tamper, stateVars, healthVars, outVars, historyVars
<1>3. EvidenceInv'
  BY DEF StateInv, TypeOK, StageInv, EvidenceInv, Whole, Tamper, stateVars, healthVars, outVars, historyVars
<1>4. Balanced(clock, ledger)'
  BY DEF StateInv, Balanced, Tamper, stateVars, healthVars, outVars, historyVars
<1>5. VictoryInv'
  BY DEF StateInv, StageInv, VictoryInv, Tamper, stateVars, healthVars, outVars, historyVars
<1>6. \A c \in saved' : Sound(c)'
  BY SavedStaysSound DEF Tamper, stateVars, healthVars, outVars, historyVars
<1>7. ResultsAccount'
  BY DEF StateInv, ResultsAccount, Tamper, stateVars, healthVars, outVars, historyVars
<1> QED
  BY <1>1, <1>2, <1>3, <1>4, <1>5, <1>6, <1>7 DEF StateInv

\* Stuttering preserves the invariant.
LEMMA StutterKeepsInv ==
  ASSUME StateInv, UNCHANGED vars
  PROVE  StateInv'
<1>1. UNCHANGED <<strict, clock, resolution, battle, receipt, victory, recorded, tags,
                  fatal, suppressed, failed, saved, frame, results, pc, call, entry, world,
                  ledger, fights, late, faults, restores, tampers>>
  BY DEF vars, stateVars, healthVars, outVars, historyVars
<1>2. TypeOK' /\ StageInv' /\ EvidenceInv' /\ VictoryInv' /\ ResultsAccount'
  BY <1>1 DEF StateInv, TypeOK, StageInv, EvidenceInv, Whole, Bound, VictoryInv,
              ResultsAccount
<1>3. Balanced(clock, ledger)' /\ entry.tick' \in Nat
  BY <1>1 DEF StateInv, Balanced
<1>4. \A c \in saved' : Sound(c)'
  BY <1>1, SavedStaysSound
<1> QED
  BY <1>2, <1>3, <1>4 DEF StateInv

\* Every step preserves what holds of each state by itself.
LEMMA StepKeepsInv ==
  ASSUME StateInv, [Next]_vars
  PROVE  StateInv'
<1>1. CASE Run
  BY <1>1, RunKeepsInv
<1>2. CASE StepOver
  BY <1>2, StepOverKeepsInv
<1>3. CASE PreflightFails
  BY <1>3, PreflightFailsKeepsInv
<1>4. CASE BeginInterval
  BY <1>4, BeginIntervalKeepsInv
<1>5. CASE Campaign
  BY <1>5, CampaignKeepsInv
<1>6. CASE OpenReceipt
  BY <1>6, OpenReceiptKeepsInv
<1>7. CASE Fight
  BY <1>7, FightKeepsInv
<1>8. CASE Evaluate
  BY <1>8, EvaluateKeepsInv
<1>9. CASE Conclude
  BY <1>9, ConcludeKeepsInv
<1>10. CASE CheckpointRefused
  BY <1>10, CheckpointRefusedKeepsInv
<1>11. CASE Suppress
  BY <1>11, SuppressKeepsInv
<1>12. CASE Fail
  BY <1>12, FailKeepsInv
<1>13. CASE Raise
  BY <1>13, RaiseKeepsInv
<1>14. CASE CaptureFrame
  BY <1>14, CaptureFrameKeepsInv
<1>15. CASE Finalize
  BY <1>15, FinalizeKeepsInv
<1>16. CASE Checkpoint
  BY <1>16, CheckpointKeepsInv
<1>17. ASSUME NEW c \in saved, Restore(c) PROVE StateInv'
  BY <1>17, RestoreKeepsInv
<1>18. ASSUME NEW r \in Resolution, Tamper(Duration[r]) PROVE StateInv'
  BY <1>18, TamperKeepsInv
<1>19. CASE UNCHANGED vars
  BY <1>19, StutterKeepsInv
<1> QED
  BY <1>1, <1>2, <1>3, <1>4, <1>5, <1>6, <1>7, <1>8, <1>9, <1>10, <1>11, <1>12, <1>13, <1>14, <1>15, <1>16, <1>17, <1>18, <1>19
  DEF Next, IntervalStep, FailureStep, ConsumerStep

\* The world's ticks, and the one the clock stands at.
LEMMA WorldType ==
  ASSUME StateInv
  PROVE  /\ world \in Seq(Tick) /\ Len(world) \in Nat
         /\ clock.tick \in Nat /\ clock.tick < Len(world)
         /\ clock.elapsed \in Nat
         /\ clock.tick + 1 \in 1..Len(world)
         /\ world[clock.tick + 1] \in Tick
<1>1. world \in Seq(Tick) /\ clock \in Clock /\ clock.tick < Len(world)
  BY DEF StateInv, TypeOK
<1>2. Len(world) \in Nat /\ clock.tick \in Nat /\ clock.elapsed \in Nat
  BY <1>1, LimitsAssumption DEF Clock
<1> QED
  BY <1>1, <1>2

\* A tick that decides the run or reaches the time limit is the last.
LEMMA DecidingTickIsLast ==
  ASSUME StateInv, Course, Now = "victory" \/ world[clock.tick + 1].elapsed >= MaxDuration
  PROVE  clock.tick = Len(world) - 1
<1>1. CASE clock.tick + 1 \in 1..(Len(world) - 1)
  <2>1. Now # "victory" /\ world[clock.tick + 1].elapsed < MaxDuration
    BY <1>1 DEF Course, Now
  <2>2. world[clock.tick + 1].elapsed \in Nat
    BY WorldType DEF Tick
  <2> QED
    BY <2>1, <2>2, LimitsAssumption
<1>2. CASE clock.tick + 1 \notin 1..(Len(world) - 1)
  BY <1>2, WorldType
<1> QED
  BY <1>1, <1>2

\* As long as nothing new is simulated, saved or handed out, only the live
\* engine can leave the course.
LEMMA CourseCarriesOver ==
  ASSUME CourseInv, UNCHANGED <<world, saved, results>>, ~late' => ~late,
         ~late' => LiveOnCourse'
  PROVE  CourseInv'
<1> SUFFICES ASSUME ~late' PROVE Course' /\ LiveOnCourse'
                                 /\ (\A c \in saved : SavedOnCourse(c)')
                                 /\ (\A r \in results : ResultOnCourse(r)')
  BY DEF CourseInv
<1>1. Course /\ (\A c \in saved : SavedOnCourse(c)) /\ (\A r \in results : ResultOnCourse(r))
  BY DEF CourseInv
<1>2. Course'
  BY <1>1 DEF Course
<1>3. \A c \in saved : SavedOnCourse(c)'
  BY <1>1 DEF SavedOnCourse, OnCourse, Ends
<1>4. \A r \in results : ResultOnCourse(r)'
  BY <1>1 DEF ResultOnCourse, Ends
<1> QED
  BY <1>2, <1>3, <1>4

\* The constructor sets out on the course.
LEMMA InitSetsCourse == Init => CourseInv
<1> SUFFICES ASSUME Init PROVE CourseInv
  OBVIOUS
<1>1. PICK h \in Happening \ {"victory", "break"} :
        /\ battle = (h = "contact")
        /\ resolution = CASE h = "contact" -> "tactical"
                          [] h = "closing" -> "operational"
                          [] OTHER -> "strategic"
        /\ world = <<[what |-> h, resolution |-> resolution, elapsed |-> 0]>>
  BY DEF Init
<1>2. /\ Len(world) = 1
      /\ world[1] = [what |-> h, resolution |-> resolution, elapsed |-> 0]
  BY <1>1
<1>3. clock.tick = 0 /\ clock.elapsed = 0 /\ saved = {} /\ results = {} /\ pc = "idle" /\ ~Over
  BY DEF Init, Over
<1>4. Course
  BY <1>2, LimitsAssumption DEF Course
<1>5. battle = Left(world[1])
  BY <1>1, <1>2 DEF Left, Happening
<1>6. LiveOnCourse
  BY <1>1, <1>2, <1>3, <1>5, LimitsAssumption DEF LiveOnCourse, OnCourse, Now
<1> QED
  BY <1>3, <1>4, <1>6 DEF CourseInv

\* Steps that move neither the clock, the battle nor the victory, and make the
\* engine no more whole than it was.
LEMMA StandingStillKeepsCourse ==
  ASSUME StateInv, CourseInv, UNCHANGED <<world, saved, results, late, resolution, battle, victory>>,
         clock'.tick = clock.tick, clock'.elapsed = clock.elapsed,
         Whole' => Whole, pc' \in Inside => pc = pc'
  PROVE  CourseInv'
<1>1. ASSUME ~late PROVE LiveOnCourse'
  <2>1. LiveOnCourse
    BY <1>1 DEF CourseInv
  <2> QED
    BY <2>1 DEF LiveOnCourse, OnCourse, Ends, Over, Now
<1> QED
  BY <1>1, CourseCarriesOver

LEMMA RunKeepsCourse ==
  ASSUME StateInv, CourseInv, Run
  PROVE  CourseInv'
BY StandingStillKeepsCourse DEF Run, Whole, stateVars, healthVars, outVars, historyVars

\* A step that finds the game over, or ends it at the tick limit.
LEMMA StepOverKeepsCourse ==
  ASSUME StateInv, CourseInv, StepOver
  PROVE  CourseInv'
<1>1. /\ UNCHANGED <<world, saved, results, late, clock, resolution, battle, fatal>>
      /\ pc = "idle" /\ ~fatal /\ pc' \in {"stepped", "finalize"} /\ Whole
  BY DEF StepOver, StepGate, Whole, healthVars, outVars, historyVars
<1>2. ASSUME ~late PROVE LiveOnCourse'
  <2>1. Course /\ LiveOnCourse
    BY <1>2 DEF CourseInv
  <2>2. OnCourse([clock |-> clock, resolution |-> resolution, battle |-> battle])'
    BY <1>1, <2>1 DEF LiveOnCourse, OnCourse
  <2>3. CASE Over
    <3>1. victory' = victory
      BY <2>3 DEF StepOver
    <3>2. Ends(clock.tick, victory.type)'
      BY <1>1, <2>1, <2>3, <3>1 DEF LiveOnCourse, Ends
    <3> QED
      BY <1>1, <2>2, <2>3, <3>1, <3>2 DEF LiveOnCourse, Over
  <2>4. CASE ~Over
    <3>1. victory'.type = "max_ticks" /\ clock.tick >= MaxTicks
      BY <2>4 DEF StepOver
    <3>2. clock.tick = MaxTicks /\ clock.tick = Len(world) - 1
      BY <2>1, <3>1, WorldType, LimitsAssumption DEF Course, StateInv, TypeOK, Clock
    <3>3. Now # "victory" /\ clock.elapsed < MaxDuration
          /\ clock.elapsed = world[clock.tick + 1].elapsed
      BY <1>1, <2>1, <2>4 DEF LiveOnCourse, OnCourse
    <3>4. Ends(clock.tick, "max_ticks")
      BY <3>2, <3>3, WorldType, LimitsAssumption DEF Ends, Now
    <3>5. Ends(clock.tick, victory.type)'
      BY <1>1, <3>1, <3>4 DEF Ends
    <3> QED
      BY <1>1, <2>2, <3>1, <3>5 DEF LiveOnCourse, Over
  <2> QED
    BY <2>3, <2>4
<1> QED
  BY <1>1, <1>2, CourseCarriesOver

LEMMA PreflightFailsKeepsCourse ==
  ASSUME StateInv, CourseInv, PreflightFails
  PROVE  CourseInv'
BY StandingStillKeepsCourse
DEF PreflightFails, StepGate, Whole, stateVars, healthVars, outVars

\* An interval resumes the course where there is one, and continues it where
\* it ends.
LEMMA BeginIntervalKeepsCourse ==
  ASSUME StateInv, CourseInv, BeginInterval
  PROVE  CourseInv'
<1> DEFINE d == world[clock.tick + 1]
           r == SelectResolution
<1>1. /\ UNCHANGED <<saved, results, late, battle, victory>>
      /\ pc = "idle" /\ ~fatal /\ ~Over /\ clock.tick < MaxTicks /\ Whole
      /\ pc' = "interval" /\ resolution' = r
      /\ clock' = [tick |-> clock.tick + 1, elapsed |-> clock.elapsed + Duration[r],
                   dur |-> Duration[r]]
  BY DEF BeginInterval, StepGate, Whole, outVars
<1> SUFFICES ASSUME ~late PROVE CourseInv'
  BY <1>1 DEF CourseInv
<1>2. Course /\ LiveOnCourse
  BY DEF CourseInv
<1>3. /\ clock.elapsed = d.elapsed /\ resolution = d.resolution /\ battle = Left(d)
      /\ d.what # "victory" /\ d.elapsed < MaxDuration
  BY <1>1, <1>2 DEF LiveOnCourse, OnCourse, Now
<1>4. r = Called(d) /\ (Left(d) <=> r = "tactical") /\ r \in Resolution
  BY <1>3 DEF SelectResolution, Called, Closing
<1>5. clock.elapsed + Duration[r] \in Nat
  BY <1>4, WorldType, DurationType
<1> HIDE DEF r
<1>6. CASE Len(world) > clock.tick + 1
  <2>1. world' = world
    BY <1>6 DEF BeginInterval
  <2>2. clock.tick + 1 \in 1..(Len(world) - 1)
    BY <1>6, WorldType
  <2>3. /\ world[clock.tick + 2].resolution = r
        /\ world[clock.tick + 2].elapsed = clock.elapsed + Duration[r]
    <3>1. /\ world[clock.tick + 1 + 1].resolution = Called(d)
          /\ world[clock.tick + 1 + 1].elapsed = d.elapsed + Duration[Called(d)]
      BY <1>2, <2>2 DEF Course
    <3>2. clock.tick + 1 + 1 = clock.tick + 2
      BY WorldType
    <3> QED
      BY <3>1, <3>2, <1>3, <1>4
  <2>4. LiveOnCourse'
    <3>1. clock'.tick + 1 = clock.tick + 2
      BY <1>1, WorldType
    <3> QED
      BY <1>1, <1>3, <1>4, <2>1, <2>3, <3>1 DEF LiveOnCourse, Whole
  <2> QED
    BY <1>1, <2>1, <2>4, CourseCarriesOver
<1>7. CASE ~(Len(world) > clock.tick + 1)
  <2>0. PICK h \in Happening :
          world' = Append(world, [what |-> h, resolution |-> resolution',
                                  elapsed |-> clock'.elapsed])
    BY <1>7 DEF BeginInterval
  <2>1. world' = Append(world, [what |-> h, resolution |-> r,
                                elapsed |-> clock.elapsed + Duration[r]])
    BY <1>1, <2>0
  <2>2. Len(world) = clock.tick + 1 /\ Len(world') = clock.tick + 2
    BY <1>7, <2>1, WorldType
  <2>3. \A i \in 1..Len(world) : world'[i] = world[i]
    BY <2>1, WorldType
  <2>4. world'[clock.tick + 2] = [what |-> h, resolution |-> r,
                                  elapsed |-> clock.elapsed + Duration[r]]
    BY <2>1, <2>2, WorldType
  <2>5. Course'
    <3>1. Len(world') <= MaxTicks + 1
      BY <1>1, <2>2, WorldType, LimitsAssumption
    <3>2. ASSUME NEW i \in 1..(Len(world') - 1)
          PROVE  /\ world'[i + 1].resolution = Called(world'[i])
                 /\ world'[i + 1].elapsed = world'[i].elapsed + Duration[Called(world'[i])]
                 /\ world'[i].what # "victory" /\ world'[i].elapsed < MaxDuration
      <4>1. CASE i = clock.tick + 1
        <5>1. world'[i] = d /\ i + 1 = clock.tick + 2
          BY <4>1, <2>2, <2>3, WorldType
        <5> QED
          BY <5>1, <1>3, <1>4, <2>4
      <4>2. CASE i # clock.tick + 1
        <5>1. i \in 1..(Len(world) - 1) /\ i \in 1..Len(world) /\ i + 1 \in 1..Len(world)
          BY <4>2, <2>2, WorldType
        <5>2. world'[i] = world[i] /\ world'[i + 1] = world[i + 1]
          BY <5>1, <2>3
        <5> QED
          BY <5>1, <5>2, <1>2 DEF Course
      <4> QED
        BY <4>1, <4>2
    <3>3. world'[1].elapsed = 0
      <4>1. 1 \in 1..Len(world)
        BY WorldType
      <4> QED
        BY <4>1, <1>2, <2>3 DEF Course
    <3> QED
      BY <3>1, <3>2, <3>3 DEF Course
  <2>6. LiveOnCourse'
    <3>1. clock'.tick + 1 = clock.tick + 2
      BY <1>1, WorldType
    <3> QED
      BY <1>1, <1>3, <1>4, <2>4, <3>1 DEF LiveOnCourse, Whole
  <2>7. ASSUME NEW t, NEW type, Ends(t, type) PROVE FALSE
    <3>1. t = clock.tick
      BY <2>2, <2>7, WorldType DEF Ends
    <3>2. type = "max_ticks" /\ clock.tick = MaxTicks
      BY <1>3, <2>7, <3>1, WorldType, LimitsAssumption DEF Ends, Tick
    <3> QED
      BY <1>1, <3>2, LimitsAssumption
  <2>8. ASSUME NEW c \in saved PROVE SavedOnCourse(c)'
    <3>1. SavedOnCourse(c) /\ Sound(c)
      BY DEF CourseInv, StateInv
    <3>2. c.clock.tick + 1 \in 1..Len(world)
      BY <3>1, WorldType, LimitsAssumption DEF Sound, Clock
    <3>3. world'[c.clock.tick + 1] = world[c.clock.tick + 1]
      BY <3>2, <2>3
    <3> QED
      BY <3>1, <3>3, <2>7 DEF SavedOnCourse, OnCourse
  <2>9. results = {}
    BY <2>7 DEF CourseInv, ResultOnCourse
  <2> QED
    BY <1>1, <2>5, <2>6, <2>8, <2>9 DEF CourseInv
<1> QED
  BY <1>6, <1>7

\* The campaign level leaves the battle that the tick is to leave.
LEMMA CampaignKeepsCourse ==
  ASSUME StateInv, CourseInv, Campaign
  PROVE  CourseInv'
<1>1. /\ UNCHANGED <<world, saved, results, late, clock, resolution, victory, fatal, entry>>
      /\ pc = "interval" /\ pc' = "evaluate" /\ resolution # "tactical"
      /\ battle' = (battle \/ Now = "contact")
  BY DEF Campaign, healthVars, outVars, historyVars
<1>2. ASSUME ~late PROVE LiveOnCourse'
  <2>1. /\ clock.elapsed = world[clock.tick + 1].elapsed
        /\ resolution = world[clock.tick + 1].resolution
        /\ battle <=> resolution = "tactical"
    BY <1>1, <1>2 DEF CourseInv, LiveOnCourse
  <2>2. battle \in BOOLEAN
    BY DEF StateInv, TypeOK
  <2>3. battle' = Left(world[clock.tick + 1])
    BY <1>1, <2>1, <2>2 DEF Left, Now
  <2> QED
    BY <1>1, <2>1, <2>3 DEF LiveOnCourse, OnCourse, Whole
<1> QED
  BY <1>1, <1>2, CourseCarriesOver

LEMMA OpenReceiptKeepsCourse ==
  ASSUME StateInv, CourseInv, OpenReceipt
  PROVE  CourseInv'
<1>1. /\ UNCHANGED <<world, saved, results, late, clock, resolution, battle, victory, fatal,
                     entry>>
      /\ pc = "interval" /\ pc' = "tactical"
  BY DEF OpenReceipt, healthVars, outVars, historyVars
<1>2. ASSUME ~late PROVE LiveOnCourse'
  <2>1. LiveOnCourse
    BY <1>2 DEF CourseInv
  <2> QED
    BY <1>1, <2>1 DEF LiveOnCourse, Whole
<1> QED
  BY <1>1, <1>2, CourseCarriesOver

\* So does the battle level.
LEMMA FightKeepsCourse ==
  ASSUME StateInv, CourseInv, Fight
  PROVE  CourseInv'
<1>1. /\ UNCHANGED <<world, saved, results, late, clock, resolution, victory, fatal, entry>>
      /\ pc = "tactical" /\ pc' = "evaluate" /\ resolution = "tactical"
      /\ battle' = (Now \notin {"break", "victory"})
  BY DEF Fight, healthVars, outVars, StateInv, StageInv
<1>2. ASSUME ~late PROVE LiveOnCourse'
  <2>1. /\ clock.elapsed = world[clock.tick + 1].elapsed
        /\ resolution = world[clock.tick + 1].resolution
    BY <1>1, <1>2 DEF CourseInv, LiveOnCourse
  <2>2. battle' = Left(world[clock.tick + 1])
    BY <1>1, <2>1 DEF Left, Now
  <2> QED
    BY <1>1, <2>1, <2>2 DEF LiveOnCourse, OnCourse, Whole
<1> QED
  BY <1>1, <1>2, CourseCarriesOver

\* A victory is declared at the course's last tick only.
LEMMA EvaluateKeepsCourse ==
  ASSUME StateInv, CourseInv, Evaluate
  PROVE  CourseInv'
<1>1. /\ UNCHANGED <<world, saved, results, late, clock, resolution, battle, fatal>>
      /\ pc = "evaluate" /\ victory.type = "none"
  BY DEF Evaluate, healthVars, outVars, historyVars, StateInv, StageInv
<1>2. ASSUME ~late PROVE LiveOnCourse'
  <2>1. Course /\ LiveOnCourse
    BY <1>2 DEF CourseInv
  <2>2. OnCourse([clock |-> clock, resolution |-> resolution, battle |-> battle])'
    BY <1>1, <2>1 DEF LiveOnCourse, OnCourse
  <2>3. CASE Now = "victory"
    <3>1. /\ victory'.type = "condition" /\ pc' \in {"stepped", "finalize", "idle"}
      BY <2>3 DEF Evaluate, Return
    <3>2. Ends(clock.tick, "condition")
      BY <2>1, <2>3, DecidingTickIsLast DEF Ends, Now
    <3>3. Ends(clock.tick, victory.type)'
      BY <1>1, <3>1, <3>2 DEF Ends
    <3> QED
      BY <2>2, <3>1, <3>3 DEF LiveOnCourse, Over
  <2>4. CASE Now # "victory"
    <3>1. pc' = "conclude" /\ Now' # "victory"
      BY <1>1, <2>4 DEF Evaluate, Now
    <3> QED
      BY <2>2, <3>1 DEF LiveOnCourse, Whole
  <2> QED
    BY <2>3, <2>4
<1> QED
  BY <1>1, <1>2, CourseCarriesOver

\* The time limit is met at the course's last tick only, and the automatic
\* checkpoint lies on the course.
LEMMA ConcludeKeepsCourse ==
  ASSUME StateInv, CourseInv, Conclude
  PROVE  CourseInv'
<1>1. /\ UNCHANGED <<world, results, late, clock, resolution, battle, fatal>>
      /\ pc = "conclude" /\ victory.type = "none"
      /\ pc' \in {"stepped", "finalize", "idle"}
      /\ saved' \subseteq saved \union {Snapshot}
  BY DEF Conclude, Return, healthVars, historyVars, StateInv, StageInv
<1> SUFFICES ASSUME ~late PROVE CourseInv'
  BY <1>1 DEF CourseInv
<1>2. Course /\ LiveOnCourse
  BY DEF CourseInv
<1>3. /\ Now # "victory" /\ clock.elapsed = world[clock.tick + 1].elapsed
      /\ OnCourse([clock |-> clock, resolution |-> resolution, battle |-> battle])
  BY <1>1, <1>2 DEF LiveOnCourse, OnCourse
<1>4. LiveOnCourse'
  <2>1. OnCourse([clock |-> clock, resolution |-> resolution, battle |-> battle])'
    BY <1>1, <1>3 DEF OnCourse
  <2>2. CASE clock.elapsed >= MaxDuration
    <3>1. victory'.type = "time_expired"
      BY <2>2 DEF Conclude
    <3>2. Ends(clock.tick, "time_expired")
      BY <1>2, <1>3, <2>2, DecidingTickIsLast DEF Ends, Now
    <3>3. Ends(clock.tick, victory.type)'
      BY <1>1, <3>1, <3>2 DEF Ends
    <3> QED
      BY <1>1, <2>1, <3>1, <3>3 DEF LiveOnCourse, Over
  <2>3. CASE ~(clock.elapsed >= MaxDuration)
    <3>1. victory' = victory
      BY <2>3 DEF Conclude
    <3>2. clock.elapsed < MaxDuration
      BY <2>3, WorldType, LimitsAssumption
    <3> QED
      BY <1>1, <1>3, <2>1, <3>1, <3>2 DEF LiveOnCourse, Over, Now
  <2> QED
    BY <2>2, <2>3
<1>5. SavedOnCourse(Snapshot)
  BY <1>1, <1>3 DEF SavedOnCourse, OnCourse, Snapshot, Now
<1>6. ASSUME NEW c \in saved' PROVE SavedOnCourse(c)'
  <2>1. SavedOnCourse(c)
    BY <1>1, <1>5 DEF CourseInv
  <2> QED
    BY <1>1, <2>1 DEF SavedOnCourse, OnCourse, Ends
<1>7. ASSUME NEW r \in results' PROVE ResultOnCourse(r)'
  <2>1. ResultOnCourse(r)
    BY <1>1 DEF CourseInv
  <2> QED
    BY <1>1, <2>1 DEF ResultOnCourse, Ends
<1>8. Course'
  BY <1>1, <1>2 DEF Course
<1> QED
  BY <1>4, <1>6, <1>7, <1>8 DEF CourseInv

\* A failed interval is off the course, but the engine is no longer whole.
LEMMA FailureKeepsCourse ==
  ASSUME StateInv, CourseInv, CheckpointRefused \/ Fail \/ Suppress
  PROVE  CourseInv'
<1>1. UNCHANGED <<world, saved, results, late, resolution, battle, victory, clock, fatal, entry>>
  BY DEF CheckpointRefused, Fail, Suppress, stateVars, outVars, historyVars
<1>2. CASE Suppress
  BY <1>1, <1>2, StandingStillKeepsCourse DEF Suppress, Whole
<1>3. CASE CheckpointRefused \/ Fail
  <2>1. pc \in Inside /\ pc' = "raising"
    BY <1>3 DEF CheckpointRefused, Fail
  <2>2. clock.tick = entry.tick + 1 /\ entry.tick \in Nat
    BY <2>1 DEF StateInv, StageInv
  <2>3. ~Whole'
    BY <1>1, <2>1, <2>2 DEF Whole
  <2> QED
    BY <1>1, <2>1, <2>3, StandingStillKeepsCourse
<1> QED
  BY <1>2, <1>3

\* The latch of step() leaves an engine whole only if nothing had moved.
LEMMA RaiseKeepsCourse ==
  ASSUME StateInv, CourseInv, Raise
  PROVE  CourseInv'
<1>1. /\ UNCHANGED <<world, saved, results, late, resolution, battle, victory, clock, entry>>
      /\ pc = "raising" /\ pc' = "idle"
      /\ ~fatal' => ~fatal /\ clock.tick = entry.tick
  BY DEF Raise, stateVars, outVars, historyVars
<1>2. Whole' => Whole
  BY <1>1 DEF Whole
<1> QED
  BY <1>1, <1>2, StandingStillKeepsCourse

LEMMA CaptureFrameKeepsCourse ==
  ASSUME StateInv, CourseInv, CaptureFrame
  PROVE  CourseInv'
BY StandingStillKeepsCourse DEF CaptureFrame, Whole, stateVars, healthVars, historyVars

\* A result is handed out at the course's end.
LEMMA FinalizeKeepsCourse ==
  ASSUME StateInv, CourseInv, Finalize
  PROVE  CourseInv'
<1>1. /\ UNCHANGED <<world, saved, late, clock, resolution, battle, victory, fatal, entry>>
      /\ pc' = "idle" /\ Whole /\ Over
      /\ results' = results \union {Outcome}
  BY DEF Finalize, Healthy, Whole, stateVars, healthVars, historyVars
<1> SUFFICES ASSUME ~late PROVE CourseInv'
  BY <1>1 DEF CourseInv
<1>2. Course /\ LiveOnCourse
  BY DEF CourseInv
<1>3. LiveOnCourse'
  BY <1>1, <1>2 DEF LiveOnCourse, OnCourse, Ends, Over
<1>4. ResultOnCourse(Outcome)
  BY <1>1, <1>2 DEF LiveOnCourse, OnCourse, ResultOnCourse, Ends, Outcome
<1>5. ASSUME NEW r \in results' PROVE ResultOnCourse(r)'
  <2>1. ResultOnCourse(r)
    BY <1>1, <1>4 DEF CourseInv
  <2> QED
    BY <1>1, <2>1 DEF ResultOnCourse, Ends
<1>6. ASSUME NEW c \in saved' PROVE SavedOnCourse(c)'
  <2>1. SavedOnCourse(c)
    BY <1>1 DEF CourseInv
  <2> QED
    BY <1>1, <2>1 DEF SavedOnCourse, OnCourse, Ends
<1>7. Course'
  BY <1>1, <1>2 DEF Course
<1> QED
  BY <1>3, <1>5, <1>6, <1>7 DEF CourseInv

\* A whole engine saves states on the course only.
LEMMA CheckpointKeepsCourse ==
  ASSUME StateInv, CourseInv, Checkpoint
  PROVE  CourseInv'
<1>1. /\ UNCHANGED <<world, results, late, clock, resolution, battle, victory, fatal, pc, entry>>
      /\ Whole /\ saved' = saved \union {Snapshot}
  BY DEF Checkpoint, Healthy, Whole, stateVars, healthVars, historyVars
<1> SUFFICES ASSUME ~late PROVE CourseInv'
  BY <1>1 DEF CourseInv
<1>2. Course /\ LiveOnCourse
  BY DEF CourseInv
<1>3. LiveOnCourse'
  BY <1>1, <1>2 DEF LiveOnCourse, OnCourse, Ends, Over, Whole, Now
<1>4. SavedOnCourse(Snapshot)
  BY <1>1, <1>2 DEF LiveOnCourse, SavedOnCourse, OnCourse, Snapshot, Over, Now
<1>5. ASSUME NEW c \in saved' PROVE SavedOnCourse(c)'
  <2>1. SavedOnCourse(c)
    BY <1>1, <1>4 DEF CourseInv
  <2> QED
    BY <1>1, <2>1 DEF SavedOnCourse, OnCourse, Ends
<1>6. ASSUME NEW r \in results' PROVE ResultOnCourse(r)'
  <2>1. ResultOnCourse(r)
    BY <1>1 DEF CourseInv
  <2> QED
    BY <1>1, <2>1 DEF ResultOnCourse, Ends
<1>7. Course'
  BY <1>1, <1>2 DEF Course
<1> QED
  BY <1>3, <1>5, <1>6, <1>7 DEF CourseInv

\* A restore puts the engine where its checkpoint was taken.
LEMMA RestoreKeepsCourse ==
  ASSUME StateInv, CourseInv, NEW c \in saved, Restore(c)
  PROVE  CourseInv'
<1>1. /\ UNCHANGED <<world, saved, results>>
      /\ pc' = "idle"
      /\ clock' = c.clock /\ resolution' = c.resolution /\ battle' = c.battle
      /\ victory' = c.victory
      /\ ~late' => ~late /\ (c.victory.type # "none" \/ ~(c.clock.elapsed >= MaxDuration))
  BY DEF Restore, Load, outVars
<1>2. ASSUME ~late' PROVE LiveOnCourse'
  <2>1. SavedOnCourse(c) /\ c.clock.elapsed \in Nat
    BY <1>1, <1>2 DEF CourseInv, StateInv, Sound, Clock
  <2>2. OnCourse([clock |-> clock, resolution |-> resolution, battle |-> battle])'
    BY <1>1, <2>1 DEF SavedOnCourse, OnCourse
  <2>3. CASE c.victory.type = "none"
    <3>1. Now' # "victory" /\ clock'.elapsed < MaxDuration
      BY <1>1, <1>2, <2>1, <2>3, LimitsAssumption DEF SavedOnCourse, Now
    <3> QED
      BY <1>1, <2>2, <2>3, <3>1 DEF LiveOnCourse, Over
  <2>4. CASE c.victory.type # "none"
    <3>1. Ends(clock.tick, victory.type)'
      BY <1>1, <2>1, <2>4 DEF SavedOnCourse, Ends
    <3> QED
      BY <1>1, <2>2, <2>4, <3>1 DEF LiveOnCourse, Over
  <2> QED
    BY <2>3, <2>4
<1> QED
  BY <1>1, <1>2, CourseCarriesOver

LEMMA TamperKeepsCourse ==
  ASSUME StateInv, CourseInv, NEW dur, Tamper(dur)
  PROVE  CourseInv'
<1>1. clock'.tick = clock.tick /\ clock'.elapsed = clock.elapsed
  BY DEF Tamper, StateInv, TypeOK, Clock
<1>2. UNCHANGED <<world, saved, results, late, resolution, battle, victory, fatal, pc, entry>>
  BY DEF Tamper, healthVars, outVars
<1> QED
  BY <1>1, <1>2, StandingStillKeepsCourse DEF Whole

\* Every step keeps to the course.
LEMMA StepKeepsCourse ==
  ASSUME StateInv, CourseInv, [Next]_vars
  PROVE  CourseInv'
<1>1. CASE UNCHANGED vars
  <2>1. UNCHANGED <<world, saved, results, late, clock, resolution, battle, victory, fatal, pc,
                    entry>>
    BY <1>1 DEF vars, stateVars, healthVars, outVars, historyVars
  <2> QED
    BY <2>1, StandingStillKeepsCourse DEF Whole
<1>2. CASE IntervalStep
  BY <1>2, StepOverKeepsCourse, BeginIntervalKeepsCourse, CampaignKeepsCourse,
     OpenReceiptKeepsCourse, FightKeepsCourse, EvaluateKeepsCourse, ConcludeKeepsCourse
  DEF IntervalStep
<1>3. CASE FailureStep
  BY <1>3, PreflightFailsKeepsCourse, FailureKeepsCourse, RaiseKeepsCourse DEF FailureStep
<1>4. CASE ConsumerStep
  BY <1>4, RunKeepsCourse, CaptureFrameKeepsCourse, FinalizeKeepsCourse,
     CheckpointKeepsCourse, RestoreKeepsCourse, TamperKeepsCourse DEF ConsumerStep
<1> QED
  BY <1>1, <1>2, <1>3, <1>4 DEF Next

\* The invariant holds in every reachable state.
THEOREM EngineInvariantHolds == Spec => []IInv
<1>1. Init => IInv
  BY InitEstablishesInv, InitSetsCourse DEF IInv
<1>2. IInv /\ [Next]_vars => IInv'
  BY StepKeepsInv, StepKeepsCourse DEF IInv
<1> QED
  BY <1>1, <1>2, PTL DEF Spec

\* Type correctness of the engine.
THEOREM EngineTypeCorrect == Spec => []TypeOK
<1>1. IInv => TypeOK
  BY DEF IInv, StateInv
<1> QED
  BY <1>1, EngineInvariantHolds, PTL

\* The clock and the performance receipt account for every interval, whatever
\* fails, is retried or is restored.
THEOREM BooksBalance == Spec => []LedgerBalances
<1>1. IInv => LedgerBalances
  BY DEF IInv, StateInv, LedgerBalances, Balanced, EvidenceInv, Whole
<1> QED
  BY <1>1, EngineInvariantHolds, PTL

\* No result hides a failure.
THEOREM ResultsOwnUp == Spec => []ResultsAccount
<1>1. IInv => ResultsAccount
  BY DEF IInv, StateInv
<1> QED
  BY <1>1, EngineInvariantHolds, PTL

\* The course ends within one tick of the time limit, and with it every
\* checkpoint taken along it.
LEMMA SavedWithinHorizon ==
  ASSUME StateInv, CourseInv, ~late, NEW c \in saved
  PROVE  WithinHorizon(c)
<1>0. PICK i : i = c.clock.tick
  OBVIOUS
<1>1. Course /\ SavedOnCourse(c) /\ Sound(c)
  BY DEF CourseInv, StateInv
<1>2. c.clock.elapsed = world[i + 1].elapsed
  BY <1>0, <1>1 DEF SavedOnCourse, OnCourse
<1>3. i \in Nat /\ i < Len(world) /\ Len(world) \in Nat /\ world \in Seq(Tick)
  BY <1>0, <1>1, WorldType, LimitsAssumption DEF Sound, Clock
<1>4. CASE i = 0
  <2>1. c.clock.elapsed = 0
    BY <1>1, <1>2, <1>4 DEF Course
  <2>2. "tactical" \in Resolution /\ Duration["tactical"] \in Nat
    BY DurationType
  <2>3. 0 <= MaxDuration + Duration["tactical"]
    BY <2>2, LimitsAssumption
  <2> QED
    BY <2>1, <2>2, <2>3 DEF WithinHorizon
<1>5. CASE i # 0
  <2> DEFINE r == Called(world[i])
  <2>1. i \in 1..(Len(world) - 1)
    BY <1>3, <1>5
  <2>2. /\ world[i + 1].elapsed = world[i].elapsed + Duration[r]
        /\ world[i].elapsed < MaxDuration
    BY <1>1, <2>1 DEF Course
  <2>3. r \in Resolution
    BY DEF Called
  <2>4. Duration[r] \in Nat
    BY <2>3, DurationType
  <2>5. world[i].elapsed \in Nat
    <3>1. i \in 1..Len(world)
      BY <1>3, <1>5
    <3>2. world[i] \in Tick
      BY <1>3, <3>1
    <3> QED
      BY <3>2 DEF Tick
  <2> HIDE DEF r
  <2>6. c.clock.elapsed <= MaxDuration + Duration[r]
    BY <1>2, <2>2, <2>4, <2>5, LimitsAssumption
  <2> QED
    BY <2>3, <2>6 DEF WithinHorizon
<1> QED
  BY <1>4, <1>5

\* Every checkpoint is free of failures and consistent, and lies within the
\* horizon unless a checkpoint past the time limit has been resumed.
THEOREM CheckpointsAreSound == Spec => []CheckpointsSound
<1>1. IInv => CheckpointsSound
  BY SavedWithinHorizon DEF IInv, StateInv, CheckpointsSound, Sound
<1> QED
  BY <1>1, EngineInvariantHolds, PTL

\* However a run is interrupted, retried and resumed, it has one outcome.
THEOREM ResumedRunsHaveOneOutcome == Spec => []ResumedRunsAgree
<1>1. IInv => ResumedRunsAgree
  BY DEF IInv, CourseInv, ResumedRunsAgree, ResultOnCourse, Ends, SameOutcome
<1> QED
  BY <1>1, EngineInvariantHolds, PTL

\* Battles are fought tactically, and closing forces never by strategic ticks.
THEOREM NeverOvershoots == Spec => NoOvershoot
<1>1. IInv /\ [Next]_vars =>
        [pc = "idle" /\ pc' = "interval" =>
           /\ battle => resolution' = "tactical"
           /\ Closing => resolution' # "strategic"]_vars
  <2> SUFFICES ASSUME IInv, Next, pc = "idle", pc' = "interval"
               PROVE  /\ battle => resolution' = "tactical"
                      /\ Closing => resolution' # "strategic"
    OBVIOUS
  <2>1. CASE BeginInterval
    BY <2>1 DEF BeginInterval, SelectResolution, IInv, StateInv, TypeOK
  <2>2. CASE ~BeginInterval
    BY <2>2 DEF Next, IntervalStep, FailureStep, ConsumerStep, Run, StepOver, StepGate,
       PreflightFails, Campaign, OpenReceipt, Fight, Evaluate, Conclude,
       CheckpointRefused, Suppress, Fail, Raise, CaptureFrame, Finalize, Checkpoint,
       Restore, Tamper
  <2> QED
    BY <2>1, <2>2
<1> QED
  BY <1>1, EngineInvariantHolds, PTL DEF Spec, NoOvershoot
=============================================================================
