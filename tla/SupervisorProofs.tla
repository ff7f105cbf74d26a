-------------------------- MODULE SupervisorProofs --------------------------
(***************************************************************************)
(* How many bots there can be, for any number of runs of the scripts, and  *)
(* any number of crashes, stops, reboots and reused PIDs (run.sh,          *)
(* healthcheck.sh).                                                        *)
(***************************************************************************)
EXTENDS Supervisor, FiniteSetTheorems, TLAPS

(* What the PID file can hold is told apart. *)
LEMMA Names ==
    /\ \A q, r : Runner(q) # Bot(r) /\ Runner(q) # NoFile /\ Bot(q) # NoFile
    /\ \A q, r : (Runner(q) = Runner(r) => q = r) /\ (Bot(q) = Bot(r) => q = r)
BY DEF Runner, Bot, NoFile

(***************************************************************************)
(* No run.sh ever sleeps: the exit code it looks at is always 0.  And the  *)
(* PID of a bot is in the file only after its run.sh has written it.       *)
(***************************************************************************)
Awake == \A r \in Runners : runner[r] # "sleep"

Named == \A r \in Runners : pidfile = Bot(r) => ~ Starting(r)

Typed == TypeOK /\ Awake /\ Named

(* The first run.sh is at its beginning, and the only one.                  *)
LEMMA TypedInit == Init => Typed
<1>. SUFFICES ASSUME Init  PROVE Typed
  OBVIOUS
<1>1. PICK r \in Runners :
         /\ runner = [q \in Runners |-> IF q = r THEN "started" ELSE "gone"]
         /\ byHand = {r}
  BY DEF Init
<1>2. \A q \in Runners : pidfile # Runner(q) /\ pidfile # Bot(q)
  BY Names DEF Init
<1>3. TypeOK
  <2>1. /\ runner \in [Runners -> {"gone", "started", "loop", "spawned", "wait",
                                  "sleep", "removing"}]
        /\ byHand \subseteq Runners
    BY <1>1
  <2>2. /\ pidfile = NoFile /\ bot \in [Runners -> {"gone", "up", "draining"}]
        /\ status \in [Runners -> {0, 1}] /\ \A q \in Runners : bot[q] = "gone"
    BY DEF Init
  <2>3. check = "idle" /\ stranger = FALSE /\ faults \in 0 .. MaxFaults /\ mishaps \in Nat
    BY SupervisorAssumption DEF Init
  <2>. QED  BY <1>2, <2>1, <2>2, <2>3 DEF TypeOK
<1>4. Awake /\ Named
  BY <1>1, <1>2 DEF Awake, Named
<1>. QED  BY <1>3, <1>4 DEF Typed

(* run.sh keeps its variables in their types, and takes its own PID out of  *)
(* the file when its bot is started.                                        *)
LEMMA TypedScript ==
    ASSUME Typed, NEW r \in Runners, Script(r)
    PROVE  Typed'
<1>. USE DEF Typed, TypeOK
<1>1. CASE WriteOwnPid(r)
  BY <1>1, Names DEF WriteOwnPid, Writes, Awake, Named, Starting
<1>2. CASE StartBot(r)
  <2>1. runner[r] = "loop"
    BY <1>2 DEF StartBot, Awake
  <2>. QED  BY <1>2, <2>1, Names DEF StartBot, Awake, Named, Starting
<1>3. CASE WriteBotPid(r)
  BY <1>3, Names DEF WriteBotPid, Writes, Awake, Named, Starting
<1>4. CASE WaitReturns(r)
  <2>1. runner' = [runner EXCEPT ![r] = "gone"]
    BY <1>4 DEF WaitReturns, ExitCode
  <2>. QED  BY <1>4, <2>1 DEF WaitReturns, Awake, Named, Starting
<1>5. CASE RemoveFile(r)
  BY <1>5, Names DEF RemoveFile, Writes, Awake, Named, Starting
<1>. QED  BY <1>1, <1>2, <1>3, <1>4, <1>5 DEF Script

(* So do the operator, the killer of run.sh, and its bot.                   *)
LEMMA TypedDisturbed ==
    ASSUME Typed, NEW r \in Runners,
           \/ StartByHand(r) \/ Cleanup(r) \/ KillRunner(r)
           \/ BotFails(r) \/ BotDrained(r)
    PROVE  Typed'
<1>. USE DEF Typed, TypeOK
<1>1. CASE StartByHand(r)
  BY <1>1, SupervisorAssumption DEF StartByHand, Strikes, Free, Awake, Named, Starting
<1>2. CASE Cleanup(r)
  <2>1. /\ runner' \in [Runners -> {"gone", "started", "loop", "spawned", "wait",
                                    "sleep", "removing"}]
        /\ bot' \in [Runners -> {"gone", "up", "draining"}]
    BY <1>2 DEF Cleanup
  <2>2. faults' \in 0 .. MaxFaults
    BY <1>2, SupervisorAssumption DEF Cleanup, Strikes
  <2>3. mishaps' \in Nat
    <3>1. Heard = {} \/ \E q : Heard = {q}
      <4>1. \A p, q \in Heard : p = q
        BY Names DEF Heard
      <4>. QED  BY <4>1
    <3>2. IsFiniteSet(Heard)
      <4>1. CASE Heard = {}
        BY <4>1, FS_EmptySet
      <4>2. ASSUME NEW q, Heard = {q}  PROVE IsFiniteSet(Heard)
        BY <4>2, FS_Singleton
      <4>. QED  BY <3>1, <4>1, <4>2
    <3>3. Cardinality(Heard \cup {r}) \in Nat
      BY <3>2, FS_AddElement, FS_CardinalityType
    <3>. QED  BY <1>2, <3>3 DEF Cleanup
  <2>4. pidfile' = pidfile \/ pidfile' = NoFile
    BY <1>2 DEF Cleanup, Writes
  <2>5. \A q \in Runners : runner'[q] \in {runner[q], "gone", "removing"}
    BY <1>2 DEF Cleanup
  <2>6. \A q \in Runners : bot'[q] = "gone" <=> bot[q] = "gone"
    BY <1>2 DEF Cleanup
  <2>7. \A q \in Runners : pidfile' = Runner(q) =>
           runner'[q] \in {"gone", "loop", "spawned"}
    <3>. SUFFICES ASSUME NEW q \in Runners, pidfile' = Runner(q)
                  PROVE  runner'[q] \in {"gone", "loop", "spawned"}
      OBVIOUS
    <3>1. pidfile = Runner(q)
      BY <2>4, Names
    <3>2. CASE runner[q] = "gone"
      BY <1>2, <3>2 DEF Cleanup
    <3>3. CASE runner[q] # "gone"
      BY <1>2, <3>1, <3>3 DEF Cleanup, Heard
    <3>. QED  BY <3>2, <3>3
  <2>8. stranger' \in BOOLEAN /\ UNCHANGED <<byHand, status, check>>
    BY <1>2 DEF Cleanup, Writes
  <2>9. TypeOK'
    BY <2>1, <2>2, <2>3, <2>4, <2>5, <2>6, <2>7, <2>8
  <2>10. Awake' /\ Named'
    BY <2>4, <2>5, Names DEF Awake, Named, Starting
  <2>. QED  BY <2>9, <2>10
<1>3. CASE KillRunner(r)
  BY <1>3, SupervisorAssumption DEF KillRunner, Strikes, Awake, Named, Starting
<1>4. CASE BotFails(r) \/ BotDrained(r)
  BY <1>4 DEF BotFails, BotDrained, Awake, Named, Starting
<1>. QED  BY <1>1, <1>2, <1>3, <1>4

(* So do healthcheck.sh and the machine.                                    *)
LEMMA TypedMachine ==
    ASSUME Typed,
           CheckLooks \/ CheckGoesOn \/ Reboot \/ PidReused \/ StrangerEnds
    PROVE  Typed'
<1>. USE DEF Typed, TypeOK
<1>1. CASE CheckLooks
  BY <1>1 DEF CheckLooks, Awake, Named, Starting
<1>2. CASE CheckRemoves
  BY <1>2, Names DEF CheckRemoves, Writes, Awake, Named, Starting
<1>3. ASSUME NEW r \in Runners, CheckStarts(r)  PROVE Typed'
  BY <1>3 DEF CheckStarts, Free, Awake, Named, Starting
<1>4. CASE Reboot
  <2>1. faults' \in 0 .. MaxFaults
    BY <1>4, SupervisorAssumption DEF Reboot, Strikes
  <2>2. /\ runner' = [r \in Runners |-> "gone"] /\ bot' = [r \in Runners |-> "gone"]
        /\ status' = [r \in Runners |-> 1] /\ check' = "idle" /\ stranger' = FALSE
        /\ UNCHANGED <<pidfile, byHand, mishaps>>
    BY <1>4 DEF Reboot
  <2>3. TypeOK'
    BY <2>1, <2>2
  <2>. QED  BY <2>2, <2>3 DEF Awake, Named, Starting
<1>5. CASE PidReused
  BY <1>5, SupervisorAssumption DEF PidReused, Strikes, Awake, Named, Starting
<1>6. CASE StrangerEnds
  BY <1>6 DEF StrangerEnds, Awake, Named, Starting
<1>. QED  BY <1>1, <1>2, <1>3, <1>4, <1>5, <1>6 DEF CheckGoesOn

(* Every step does.                                                         *)
LEMMA TypedStep == Typed /\ [Next]_vars => Typed'
<1>. SUFFICES ASSUME Typed, [Next]_vars  PROVE Typed'
  OBVIOUS
<1>1. CASE UNCHANGED vars
  BY <1>1 DEF vars, Typed, TypeOK, Awake, Named, Starting
<1>2. CASE Next
  BY <1>2, TypedScript, TypedDisturbed, TypedMachine DEF Next
<1>. QED  BY <1>1, <1>2

(* The variables of the scripts keep their types, a run.sh that has not     *)
(* reached the start of its bot has none, and its own PID is in the file    *)
(* only until it has written that of its bot (run.sh's loop).               *)
THEOREM TypeCorrect == Spec => []TypeOK
<1>1. Typed => TypeOK
  BY DEF Typed
<1>. QED  BY <1>1, TypedInit, TypedStep, PTL DEF Spec

-----------------------------------------------------------------------------
(***************************************************************************)
(* The invariant.  A run counts as long as it is starting or has a bot,    *)
(* and once more while it is about to remove the PID file.  There is at    *)
(* most one count more than mishaps, and none more when healthcheck.sh may *)
(* start one: when it has looked, or would find nothing if it did now.     *)
(***************************************************************************)
Active == {r \in Runners : Starting(r) \/ bot[r] # "gone"}

Removing == {r \in Runners : runner[r] = "removing"}

Load == Cardinality(Active) + Cardinality(Removing)

Visible == \E r \in Runners : \/ pidfile = Runner(r) /\ runner[r] # "gone"
                              \/ pidfile = Bot(r) /\ bot[r] # "gone"

(* A run started by a check is expected to write its PID. *)
InSight == Visible \/ \E r \in Runners : runner[r] = "started" /\ r \notin byHand

Finite == IsFiniteSet(Active) /\ IsFiniteSet(Removing)

Counted ==
    /\ Finite
    /\ Load <= mishaps + 1
    /\ ~ InSight => Load <= mishaps
    /\ check # "idle" => /\ Load <= mishaps
                         /\ \A r \in Runners : Starting(r) => r \in byHand

(* One more or less in one of two sets is one more or less in all.          *)
LEMMA Sums ==
    ASSUME NEW A, NEW R, NEW B, NEW S, IsFiniteSet(A), IsFiniteSet(R)
    PROVE  /\ Cardinality(A) + Cardinality(R) \in Nat
           /\ B \subseteq A /\ S \subseteq R =>
                 /\ IsFiniteSet(B) /\ IsFiniteSet(S)
                 /\ Cardinality(B) + Cardinality(S) \in Nat
                 /\ Cardinality(B) + Cardinality(S) <= Cardinality(A) + Cardinality(R)
<1>1. Cardinality(A) \in Nat /\ Cardinality(R) \in Nat
  BY FS_CardinalityType
<1>2. ASSUME B \subseteq A, S \subseteq R
      PROVE  /\ IsFiniteSet(B) /\ IsFiniteSet(S)
             /\ Cardinality(B) \in Nat /\ Cardinality(S) \in Nat
             /\ Cardinality(B) <= Cardinality(A) /\ Cardinality(S) <= Cardinality(R)
  BY <1>2, FS_Subset, FS_CardinalityType
<1>. QED  BY <1>1, <1>2

(* A step that adds nobody adds nothing, ...                                *)
LEMMA NobodyMore ==
    ASSUME Finite, Active' \subseteq Active, Removing' \subseteq Removing
    PROVE  Finite' /\ Load \in Nat /\ Load' \in Nat /\ Load' <= Load
BY Sums DEF Finite, Load

(* ... one that takes a run out takes one off, ...                          *)
LEMMA OneLess ==
    ASSUME Finite, NEW x,
           \/ x \in Active /\ Active' \subseteq Active \ {x} /\ Removing' \subseteq Removing
           \/ x \in Removing /\ Active' \subseteq Active /\ Removing' \subseteq Removing \ {x}
    PROVE  Finite' /\ Load \in Nat /\ Load' \in Nat /\ Load' + 1 <= Load
<1>1. CASE x \in Active /\ Active' \subseteq Active \ {x} /\ Removing' \subseteq Removing
  <2>1. /\ IsFiniteSet(Active \ {x})
        /\ Cardinality(Active \ {x}) = Cardinality(Active) - 1
    BY <1>1, FS_RemoveElement DEF Finite
  <2>2. /\ Cardinality(Active) \in Nat /\ Cardinality(Removing) \in Nat
        /\ Cardinality(Active \ {x}) \in Nat
    BY <2>1, FS_CardinalityType DEF Finite
  <2>3. /\ Finite' /\ Load' \in Nat
        /\ Load' <= Cardinality(Active \ {x}) + Cardinality(Removing)
    BY <1>1, <2>1, Sums DEF Finite, Load
  <2>. QED  BY <2>1, <2>2, <2>3 DEF Load
<1>2. CASE x \in Removing /\ Active' \subseteq Active /\ Removing' \subseteq Removing \ {x}
  <2>1. /\ IsFiniteSet(Removing \ {x})
        /\ Cardinality(Removing \ {x}) = Cardinality(Removing) - 1
    BY <1>2, FS_RemoveElement DEF Finite
  <2>2. /\ Cardinality(Active) \in Nat /\ Cardinality(Removing) \in Nat
        /\ Cardinality(Removing \ {x}) \in Nat
    BY <2>1, FS_CardinalityType DEF Finite
  <2>3. /\ Finite' /\ Load' \in Nat
        /\ Load' <= Cardinality(Active) + Cardinality(Removing \ {x})
    BY <1>2, <2>1, Sums DEF Finite, Load
  <2>. QED  BY <2>1, <2>2, <2>3 DEF Load
<1>. QED  BY <1>1, <1>2

(* ... and one that adds a run adds one.                                    *)
LEMMA OneMore ==
    ASSUME Finite, NEW x,
           \/ Active' \subseteq Active \cup {x} /\ Removing' \subseteq Removing
           \/ Active' \subseteq Active /\ Removing' \subseteq Removing \cup {x}
    PROVE  Finite' /\ Load \in Nat /\ Load' \in Nat /\ Load' <= Load + 1
<1>0. Cardinality(Active) \in Nat /\ Cardinality(Removing) \in Nat
  BY FS_CardinalityType DEF Finite
<1>1. CASE Active' \subseteq Active \cup {x} /\ Removing' \subseteq Removing
  <2>1. /\ IsFiniteSet(Active \cup {x}) /\ Cardinality(Active \cup {x}) \in Nat
        /\ Cardinality(Active \cup {x}) <= Cardinality(Active) + 1
    <3>1. /\ IsFiniteSet(Active \cup {x})
          /\ Cardinality(Active \cup {x}) =
                IF x \in Active THEN Cardinality(Active) ELSE Cardinality(Active) + 1
      BY FS_AddElement DEF Finite
    <3>. QED  BY <1>0, <3>1
  <2>2. /\ Finite' /\ Load' \in Nat
        /\ Load' <= Cardinality(Active \cup {x}) + Cardinality(Removing)
    BY <1>1, <2>1, Sums DEF Finite, Load
  <2>. QED  BY <1>0, <2>1, <2>2 DEF Load
<1>2. CASE Active' \subseteq Active /\ Removing' \subseteq Removing \cup {x}
  <2>1. /\ IsFiniteSet(Removing \cup {x}) /\ Cardinality(Removing \cup {x}) \in Nat
        /\ Cardinality(Removing \cup {x}) <= Cardinality(Removing) + 1
    <3>1. /\ IsFiniteSet(Removing \cup {x})
          /\ Cardinality(Removing \cup {x}) =
                IF x \in Removing THEN Cardinality(Removing) ELSE Cardinality(Removing) + 1
      BY FS_AddElement DEF Finite
    <3>. QED  BY <1>0, <3>1
  <2>2. /\ Finite' /\ Load' \in Nat
        /\ Load' <= Cardinality(Active) + Cardinality(Removing \cup {x})
    BY <1>2, <2>1, Sums DEF Finite, Load
  <2>. QED  BY <1>0, <2>1, <2>2 DEF Load
<1>. QED  BY <1>1, <1>2

-----------------------------------------------------------------------------
(* run.sh is in sight from the writing of its PID to the end of its bot,    *)
(* unless another one overwrites the file, and is in sight in its place.    *)
LEMMA CountedScript ==
    ASSUME Typed, Counted, NEW r \in Runners, Script(r)
    PROVE  Counted'
<1>. USE DEF Typed, TypeOK
<1>1. CASE WriteOwnPid(r)
  <2>1. /\ Active' \subseteq Active /\ Removing' \subseteq Removing
        /\ \A q \in Runners : Starting(q)' <=> Starting(q)
        /\ UNCHANGED <<byHand, check, mishaps>>
    BY <1>1 DEF WriteOwnPid, Active, Removing, Starting
  <2>2. InSight'
    BY <1>1 DEF WriteOwnPid, Writes, InSight, Visible
  <2>. QED  BY <2>1, <2>2, NobodyMore DEF Counted
<1>2. CASE StartBot(r)
  <2>0. runner[r] = "loop"
    BY <1>2 DEF StartBot, Awake
  <2>1. /\ Active' \subseteq Active /\ Removing' \subseteq Removing
        /\ \A q \in Runners : Starting(q)' <=> Starting(q)
        /\ UNCHANGED <<byHand, check, mishaps>>
    BY <1>2, <2>0 DEF StartBot, Active, Removing, Starting
  <2>2. InSight => InSight'
    BY <1>2, <2>0 DEF StartBot, InSight, Visible
  <2>. QED  BY <2>1, <2>2, NobodyMore DEF Counted
<1>3. CASE WriteBotPid(r)
  <2>1. /\ Active' \subseteq Active /\ Removing' \subseteq Removing
        /\ \A q \in Runners : Starting(q)' => Starting(q)
        /\ UNCHANGED <<byHand, check, mishaps>>
    BY <1>3 DEF WriteBotPid, Active, Removing, Starting
  <2>2. CASE bot[r] # "gone"
    <3>1. InSight'
      BY <1>3, <2>2 DEF WriteBotPid, Writes, InSight, Visible
    <3>. QED  BY <2>1, <3>1, NobodyMore DEF Counted
  <2>3. CASE bot[r] = "gone"
    <3>1. r \in Active /\ Active' \subseteq Active \ {r}
      BY <1>3, <2>3 DEF WriteBotPid, Active, Starting
    <3>. QED  BY <2>1, <3>1, OneLess DEF Counted
  <2>. QED  BY <2>2, <2>3
<1>4. CASE WaitReturns(r)
  <2>0. runner' = [runner EXCEPT ![r] = "gone"]
    BY <1>4 DEF WaitReturns, ExitCode
  <2>1. /\ Active' \subseteq Active /\ Removing' \subseteq Removing
        /\ \A q \in Runners : Starting(q)' <=> Starting(q)
        /\ UNCHANGED <<byHand, check, mishaps>>
    BY <1>4, <2>0 DEF WaitReturns, Active, Removing, Starting
  <2>2. InSight => InSight'
    BY <1>4, <2>0 DEF WaitReturns, InSight, Visible
  <2>. QED  BY <2>1, <2>2, NobodyMore DEF Counted
<1>5. CASE RemoveFile(r)
  <2>1. /\ Active' \subseteq Active
        /\ r \in Removing /\ Removing' \subseteq Removing \ {r}
        /\ \A q \in Runners : Starting(q)' <=> Starting(q)
        /\ UNCHANGED <<byHand, check, mishaps>>
    BY <1>5 DEF RemoveFile, Active, Removing, Starting
  <2>. QED  BY <2>1, OneLess DEF Counted
<1>. QED  BY <1>1, <1>2, <1>3, <1>4, <1>5 DEF Script

(* A bot that ends is no longer in sight, and no longer counts, unless its  *)
(* run.sh is still to write its PID.                                        *)
LEMMA CountedBotEnds ==
    ASSUME Typed, Counted, NEW r \in Runners, BotFails(r) \/ BotDrained(r)
    PROVE  Counted'
<1>. USE DEF Typed, TypeOK
<1>1. /\ bot[r] # "gone" /\ bot' = [bot EXCEPT ![r] = "gone"]
      /\ UNCHANGED <<pidfile, runner, byHand, check, mishaps>>
  BY DEF BotFails, BotDrained
<1>2. /\ Active' \subseteq Active /\ Removing' \subseteq Removing
      /\ \A q \in Runners : Starting(q)' <=> Starting(q)
  BY <1>1 DEF Active, Removing, Starting
<1>3. CASE Starting(r)
  <2>1. InSight => InSight'
    BY <1>1, <1>3 DEF Named, InSight, Visible
  <2>. QED  BY <1>1, <1>2, <2>1, NobodyMore DEF Counted
<1>4. CASE ~ Starting(r)
  <2>1. r \in Active /\ Active' \subseteq Active \ {r}
    BY <1>1, <1>4 DEF Active, Starting
  <2>. QED  BY <1>1, <1>2, <2>1, OneLess DEF Counted
<1>. QED  BY <1>3, <1>4

(* The run.sh a check starts is one more than mishaps at most, because      *)
(* nothing was in sight when it looked.                                     *)
LEMMA CountedCheck ==
    ASSUME Typed, Counted, CheckLooks \/ CheckGoesOn
    PROVE  Counted'
<1>. USE DEF Typed, TypeOK
<1>1. CASE CheckLooks
  <2>1. /\ Active' = Active /\ Removing' = Removing /\ Load' = Load
        /\ UNCHANGED <<runner, byHand, mishaps>>
    BY <1>1 DEF CheckLooks, Active, Removing, Starting, Load
  <2>2. ~ Visible
    BY <1>1, Names DEF CheckLooks, PidAlive, Visible
  <2>3. \A q \in Runners : Starting(q) => q \in byHand
    BY <1>1 DEF CheckLooks, FiveMinutesLater
  <2>4. ~ InSight
    BY <2>2, <2>3 DEF InSight, Starting
  <2>5. Load \in Nat
    BY Sums DEF Counted, Finite, Load
  <2>. QED  BY <2>1, <2>3, <2>4, <2>5 DEF Counted, Finite, Starting
<1>2. CASE CheckRemoves
  <2>1. /\ Active' = Active /\ Removing' = Removing /\ Load' = Load
        /\ UNCHANGED <<runner, byHand, mishaps>> /\ check # "idle"
    BY <1>2 DEF CheckRemoves, Active, Removing, Starting, Load
  <2>. QED  BY <2>1 DEF Counted, Finite, Starting
<1>3. ASSUME NEW r \in Runners, CheckStarts(r)  PROVE Counted'
  <2>1. /\ Active' \subseteq Active \cup {r} /\ Removing' \subseteq Removing
        /\ check # "idle" /\ check' = "idle" /\ mishaps' = mishaps
    BY <1>3 DEF CheckStarts, Active, Removing, Starting
  <2>2. InSight'
    BY <1>3 DEF CheckStarts, InSight
  <2>3. Finite' /\ Load \in Nat /\ Load' \in Nat /\ Load' <= Load + 1
    BY <2>1, OneMore DEF Counted
  <2>. QED  BY <2>1, <2>2, <2>3 DEF Counted
<1>. QED  BY <1>1, <1>2, <1>3 DEF CheckGoesOn

(* One that is started by hand is a mishap, ...                             *)
LEMMA CountedByHand ==
    ASSUME Typed, Counted, NEW r \in Runners, StartByHand(r)
    PROVE  Counted'
<1>. USE DEF Typed, TypeOK
<1>1. /\ runner[r] = "gone" /\ bot[r] = "gone"
      /\ runner' = [runner EXCEPT ![r] = "started"] /\ byHand' = byHand \cup {r}
      /\ mishaps' = mishaps + 1 /\ UNCHANGED <<pidfile, bot, check>>
  BY DEF StartByHand, Free
<1>2. Active' \subseteq Active \cup {r} /\ Removing' \subseteq Removing
  BY <1>1 DEF Active, Removing, Starting
<1>3. InSight => InSight'
  BY <1>1 DEF InSight, Visible
<1>4. (\A q \in Runners : Starting(q) => q \in byHand) =>
         (\A q \in Runners : Starting(q) => q \in byHand)'
  BY <1>1 DEF Starting
<1>. QED  BY <1>1, <1>2, <1>3, <1>4, OneMore DEF Counted

(* ... so is one that is killed, ...                                        *)
LEMMA CountedKill ==
    ASSUME Typed, Counted, NEW r \in Runners, KillRunner(r)
    PROVE  Counted'
<1>. USE DEF Typed, TypeOK
<1>1. /\ Active' \subseteq Active /\ Removing' \subseteq Removing
      /\ \A q \in Runners : Starting(q)' => Starting(q)
      /\ mishaps' = mishaps + 1 /\ UNCHANGED <<byHand, check>>
  BY DEF KillRunner, Active, Removing, Starting
<1>. QED  BY <1>1, NobodyMore DEF Counted

(* ... and one that is stopped: it counts for the file it will remove, or,  *)
(* if its own PID is there, no longer.                                      *)
LEMMA CountedCleanup ==
    ASSUME Typed, Counted, NEW r \in Runners, Cleanup(r)
    PROVE  Counted'
<1>. USE DEF Typed, TypeOK
<1>1. /\ runner' = [q \in Runners |-> IF q \in Heard THEN "gone"
                                     ELSE IF q = r THEN "removing" ELSE runner[q]]
      /\ mishaps' = mishaps + Cardinality(Heard \cup {r})
      /\ \A q \in Runners : bot'[q] = "gone" <=> bot[q] = "gone"
      /\ UNCHANGED <<byHand, check>>
  BY DEF Cleanup
<1>2. /\ Active' \subseteq Active
      /\ Removing' \subseteq Removing \cup {r}
      /\ \A q \in Runners : Starting(q)' => Starting(q)
  BY <1>1 DEF Active, Removing, Starting
<1>3. CASE Heard = {}
  <2>1. mishaps' = mishaps + 1
    <3>1. Heard \cup {r} = {r}
      BY <1>3
    <3>2. Cardinality({r}) = 1
      BY FS_Singleton
    <3>. QED  BY <1>1, <3>1, <3>2
  <2>2. Load' <= mishaps' + 1 /\ Finite' /\ Load \in Nat /\ Load' \in Nat
        /\ Load' <= Load + 1
    BY <1>2, <2>1, OneMore DEF Counted
  <2>3. ASSUME ~ InSight'  PROVE Load' <= mishaps'
    <3>1. UNCHANGED pidfile
      BY <1>3 DEF Cleanup
    <3>2. ~ Visible
      BY <1>1, <1>3, <2>3, <3>1 DEF InSight, Visible, Heard
    <3>3. CASE InSight
      <4>1. PICK q \in Runners : runner[q] = "started" /\ q \notin byHand
        BY <3>2, <3>3 DEF InSight
      <4>2. q = r
        BY <1>1, <1>3, <2>3, <4>1 DEF InSight
      <4>3. r \in Active /\ Active' \subseteq Active \ {r} /\ r \notin Removing
        BY <1>1, <1>2, <1>3, <4>1, <4>2 DEF Active, Removing, Starting
      <4>4. Load' <= Load
        <5>1. /\ IsFiniteSet(Active \ {r}) /\ Cardinality(Active \ {r}) \in Nat
              /\ Cardinality(Active \ {r}) = Cardinality(Active) - 1
          BY <4>3, FS_RemoveElement, FS_CardinalityType DEF Counted, Finite
        <5>2. /\ IsFiniteSet(Removing \cup {r}) /\ Cardinality(Removing \cup {r}) \in Nat
              /\ Cardinality(Removing \cup {r}) = Cardinality(Removing) + 1
          BY <4>3, FS_AddElement, FS_CardinalityType DEF Counted, Finite
        <5>3. /\ Load' <= Cardinality(Active \ {r}) + Cardinality(Removing \cup {r})
          BY <1>2, <4>3, <5>1, <5>2, Sums DEF Load
        <5>4. Cardinality(Active) \in Nat /\ Cardinality(Removing) \in Nat
          BY FS_CardinalityType DEF Counted, Finite
        <5>. QED  BY <2>2, <5>1, <5>2, <5>3, <5>4 DEF Load
      <4>. QED  BY <2>1, <2>2, <4>4 DEF Counted
    <3>4. CASE ~ InSight
      BY <2>1, <2>2, <3>4 DEF Counted
    <3>. QED  BY <3>3, <3>4
  <2>4. check' # "idle" => Load' <= mishaps'
    BY <1>1, <2>1, <2>2 DEF Counted
  <2>. QED  BY <1>1, <1>2, <2>2, <2>3, <2>4 DEF Counted
<1>4. CASE Heard # {}
  <2>1. PICK h \in Runners : Heard = {h} /\ runner[h] # "gone"
    BY <1>4, Names DEF Heard
  <2>2. CASE h = r
    <3>1. mishaps' = mishaps + 1
      <4>1. Heard \cup {r} = {r}
        BY <2>1, <2>2
      <4>2. Cardinality({r}) = 1
        BY FS_Singleton
      <4>. QED  BY <1>1, <4>1, <4>2
    <3>2. Removing' \subseteq Removing
      BY <1>1, <2>1, <2>2 DEF Removing
    <3>. QED  BY <1>1, <1>2, <3>1, <3>2, NobodyMore DEF Counted
  <2>3. CASE h # r
    <3>1. mishaps' = mishaps + 2
      <4>1. Heard \cup {r} = {h} \cup {r} /\ r \notin {h}
        BY <2>1, <2>3
      <4>2. IsFiniteSet({h}) /\ Cardinality({h}) = 1
        BY FS_Singleton
      <4>3. Cardinality({h} \cup {r}) = 2
        BY <4>1, <4>2, FS_AddElement
      <4>. QED  BY <1>1, <4>1, <4>3
    <3>. QED  BY <1>1, <1>2, <3>1, OneMore DEF Counted
  <2>. QED  BY <2>2, <2>3
<1>. QED  BY <1>3, <1>4

(* A reboot ends everything; PIDs given away change nothing that counts.    *)
LEMMA CountedMachine ==
    ASSUME Typed, Counted, Reboot \/ PidReused \/ StrangerEnds
    PROVE  Counted'
<1>. USE DEF Typed, TypeOK
<1>1. CASE Reboot
  <2>1. Active' = {} /\ Removing' = {} /\ check' = "idle" /\ mishaps' = mishaps
    BY <1>1 DEF Reboot, Active, Removing, Starting
  <2>2. Finite' /\ Load' = 0
    BY <2>1, FS_EmptySet DEF Finite, Load
  <2>. QED  BY <2>1, <2>2 DEF Counted
<1>2. CASE PidReused \/ StrangerEnds
  <2>1. UNCHANGED <<pidfile, runner, byHand, bot, check, mishaps>>
    BY <1>2 DEF PidReused, StrangerEnds
  <2>. QED  BY <2>1 DEF Counted, Finite, Load, Active, Removing, Starting, InSight, Visible
<1>. QED  BY <1>1, <1>2

(* Every step keeps the count.                                              *)
LEMMA CountedStep == Typed /\ Counted /\ [Next]_vars => Counted'
<1>. SUFFICES ASSUME Typed, Counted, [Next]_vars  PROVE Counted'
  OBVIOUS
<1>1. CASE UNCHANGED vars
  BY <1>1 DEF vars, Counted, Finite, Load, Active, Removing, Starting, InSight, Visible
<1>2. CASE Next
  BY <1>2, CountedScript, CountedBotEnds, CountedCheck, CountedByHand, CountedKill,
     CountedCleanup, CountedMachine
  DEF Next
<1>. QED  BY <1>1, <1>2

(* The first run.sh was started by hand, and is the only one.               *)
LEMMA CountedInit == Init => Counted
<1>. SUFFICES ASSUME Init  PROVE Counted
  OBVIOUS
<1>1. PICK r \in Runners :
         /\ runner = [q \in Runners |-> IF q = r THEN "started" ELSE "gone"]
         /\ byHand = {r}
  BY DEF Init
<1>2. Active = {r} /\ Removing = {}
  BY <1>1 DEF Init, Active, Removing, Starting
<1>3. /\ IsFiniteSet({r}) /\ Cardinality({r}) = 1
      /\ IsFiniteSet({}) /\ Cardinality({}) = 0
  BY FS_Singleton, FS_EmptySet
<1>4. Finite /\ Load = 1
  BY <1>2, <1>3 DEF Finite, Load
<1>. QED  BY <1>4 DEF Init, Counted

(* Whatever happens to the scripts, their processes and the machine, there  *)
(* are no more bots than one and one for each start of run.sh by hand, each *)
(* stop and each kill of it.                                                *)
THEOREM BotsAlwaysBounded == Spec => []BotsBounded
<1>1. Typed /\ Counted => BotsBounded
  <2>. SUFFICES ASSUME Typed, Counted  PROVE BotsBounded
    OBVIOUS
  <2>. DEFINE bots == {r \in Runners : bot[r] # "gone"}
  <2>1. bots \subseteq Active
    BY DEF Active
  <2>2. /\ Cardinality(bots) <= Cardinality(Active)
        /\ Cardinality(bots) \in Nat /\ Cardinality(Active) \in Nat
        /\ Cardinality(Removing) \in Nat
    BY <2>1, FS_Subset, FS_CardinalityType DEF Counted, Finite
  <2>3. Cardinality(Active) + Cardinality(Removing) <= mishaps + 1 /\ mishaps \in Nat
    BY DEF Counted, Load, Typed, TypeOK
  <2>4. Cardinality(bots) <= 1 + mishaps
    BY <2>2, <2>3
  <2>. QED  BY <2>4 DEF BotsBounded
<1>2. Typed /\ Counted /\ [Next]_vars => Typed' /\ Counted'
  BY TypedStep, CountedStep
<1>. QED  BY <1>1, <1>2, TypedInit, CountedInit, PTL DEF Spec

=============================================================================
