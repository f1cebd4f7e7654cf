-------------------------- MODULE EngineInvariant --------------------------
(***************************************************************************)
(* The inductive invariant of Engine: what holds between any two of its    *)
(* actions and is preserved by each of them.                               *)
(***************************************************************************)
EXTENDS Engine

Inside == {"interval", "tactical", "evaluate", "conclude"}

\* A step that has been entered and not returned; its exception, if it comes,
\* is told from one before the commitment by the clock's tick.
StageInv ==
  /\ pc \in Inside => /\ clock.tick = entry.tick + 1
                      /\ Bound
                      /\ victory.type = "none"
  /\ pc = "tactical" => resolution = "tactical"
  /\ pc = "raising" => clock.tick \in {entry.tick, entry.tick + 1}
  /\ pc \in Inside \union {"stepped", "finalize"} => ~fatal
  /\ call = "none" => pc = "idle"

\* The engine is whole: no failure has left an interval half done.
Whole ==
  \/ pc \in {"idle", "stepped", "finalize"} /\ ~fatal
  \/ pc = "raising" /\ clock.tick = entry.tick /\ ~fatal

\* What is behind the tactical intervals, the tick count and the failures
\* while a step is under way, and what they agree with when it is whole.
EvidenceInv ==
  /\ receipt.state = "poisoned" => fatal \/ (pc = "raising" /\ clock.tick # entry.tick)
  /\ Whole \/ pc \in {"evaluate", "conclude"} => receipt.intervals = ledger["tactical"]
  /\ pc \in {"interval", "tactical"} =>
       ledger["tactical"] = receipt.intervals + (IF resolution = "tactical" THEN 1 ELSE 0)
  /\ Whole \/ pc = "conclude" => recorded = clock.tick
  /\ Whole \/ pc \in Inside => failed = suppressed
  /\ strict => suppressed = 0

\* The books of a state, live or saved.
Balanced(c, l) ==
  /\ c.tick = l["strategic"] + l["operational"] + l["tactical"]
  /\ c.elapsed = StrategicS * l["strategic"] + OperationalS * l["operational"]
                   + TacticalS * l["tactical"]
  /\ c.tick = 0 <=> c.elapsed = 0

VictoryInv == IF victory.type = "none" THEN victory.tick = 0 ELSE victory.tick = clock.tick

\* A checkpoint may be loaded at any later time.
Sound(c) ==
  /\ c.clock \in Clock /\ c.clock.tick < Len(world)
  /\ c.resolution \in Resolution /\ c.battle \in BOOLEAN
  /\ c.intervals \in Nat /\ c.victory \in Victory /\ c.recorded \in 0..MaxTicks
  /\ c.tags \subseteq 0..MaxTicks /\ c.fights \subseteq 0..MaxTicks
  /\ c.ledger \in [Resolution -> Nat]
  /\ Balanced(c.clock, c.ledger)
  /\ c.intervals = c.ledger["tactical"]
  /\ c.failed = 0
  /\ Consistent(c)

\* What holds of each state by itself.
StateInv ==
  /\ TypeOK /\ entry.tick \in Nat
  /\ StageInv
  /\ EvidenceInv
  /\ Balanced(clock, ledger)
  /\ VictoryInv
  /\ \A c \in saved : Sound(c)
  /\ ResultsAccount

\* The battle a tick leaves behind: one that was fought goes on unless it broke
\* off or was decided, and a contact opens one.
Left(d) == IF d.resolution = "tactical" THEN d.what \notin {"break", "victory"}
           ELSE d.what = "contact"

\* The resolution that the forces call for after a tick.
Called(d) ==
  CASE Left(d) -> "tactical"
    [] ~Left(d) /\ d.what \in {"closing", "contact"} -> "operational"
    [] ~Left(d) /\ d.what \notin {"closing", "contact"}
         /\ d.resolution = "tactical" -> "operational"
    [] OTHER -> "strategic"

\* Each tick follows from the one before, which did not end the run.
Course ==
  /\ Len(world) <= MaxTicks + 1
  /\ world[1].elapsed = 0
  /\ \A i \in 1..(Len(world) - 1) :
       /\ world[i + 1].resolution = Called(world[i])
       /\ world[i + 1].elapsed = world[i].elapsed + Duration[Called(world[i])]
       /\ world[i].what # "victory" /\ world[i].elapsed < MaxDuration

\* A state at the end of a tick is the one in which that tick was first left.
OnCourse(c) ==
  LET d == world[c.clock.tick + 1] IN
    c.clock.elapsed = d.elapsed /\ c.resolution = d.resolution /\ c.battle = Left(d)

\* How the run ends, at its last tick.
Ends(tick, type) ==
  LET d == world[tick + 1] IN
    /\ tick = Len(world) - 1
    /\ type = CASE d.what = "victory" -> "condition"
                [] d.what # "victory" /\ d.elapsed >= MaxDuration -> "time_expired"
                [] OTHER -> "max_ticks"
    /\ type = "max_ticks" => tick = MaxTicks

\* The live engine is on course between steps and within each stage of one.
LiveOnCourse ==
  /\ Whole \/ pc \in {"evaluate", "conclude"} =>
       OnCourse([clock |-> clock, resolution |-> resolution, battle |-> battle])
  /\ pc \in {"interval", "tactical"} =>
       /\ clock.elapsed = world[clock.tick + 1].elapsed
       /\ resolution = world[clock.tick + 1].resolution
       /\ battle <=> resolution = "tactical"
  /\ pc = "conclude" => Now # "victory"
  /\ Whole /\ ~Over => Now # "victory" /\ clock.elapsed < MaxDuration
  /\ Whole /\ Over => Ends(clock.tick, victory.type)

SavedOnCourse(c) ==
  /\ OnCourse(c)
  /\ IF c.victory.type = "none" THEN world[c.clock.tick + 1].what # "victory"
     ELSE Ends(c.clock.tick, c.victory.type)

ResultOnCourse(r) == Ends(r.ticks, r.type) /\ r.elapsed = world[r.ticks + 1].elapsed

\* There is one course, and everything the engine holds, has saved or has
\* handed out lies on it, until a checkpoint past the time limit is resumed.
CourseInv ==
  ~late =>
    /\ Course
    /\ LiveOnCourse
    /\ \A c \in saved : SavedOnCourse(c)
    /\ \A r \in results : ResultOnCourse(r)

IInv == StateInv /\ CourseInv
=============================================================================
