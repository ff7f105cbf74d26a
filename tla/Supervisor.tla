----------------------------- MODULE Supervisor -----------------------------
(***************************************************************************)
(* The scripts that keep the bot running: run.sh starts it and waits for   *)
(* it, healthcheck.sh is run by cron and starts run.sh when the process of *)
(* the PID file is gone.  A run of run.sh and the bot it starts share a    *)
(* name r; the PID file holds the PID of one of the two.                   *)
(***************************************************************************)
EXTENDS Naturals, FiniteSets

CONSTANTS
    Runners,     \* names for runs of run.sh; reused when both are gone
    Cron,        \* whether healthcheck.sh is in the crontab
    Faults,      \* which of FaultKinds may happen
    MaxFaults    \* bound: how many of them happen

FaultKinds == {"start", "stop", "kill", "reboot", "reuse"}

ASSUME SupervisorAssumption ==
    /\ Runners # {}
    /\ Cron \in BOOLEAN
    /\ Faults \subseteq FaultKinds
    /\ MaxFaults \in Nat

VARIABLES
    pidfile,    \* whose PID data/hyperkaehler.pid holds
    runner,     \* r -> where run.sh is
    byHand,     \* the runs that the operator started, and not cron
    bot,        \* r -> the bot started by it
    status,     \* r -> how the bot ended, 0 for a clean exit
    check,      \* where healthcheck.sh is
    stranger,   \* the PID of the file was given to an unrelated process
    faults,     \* ghost: the faults so far
    mishaps     \* ghost: the runs of run.sh so far that were started by
                \* hand, stopped or killed, a run counting for each of these

vars == <<pidfile, runner, byHand, bot, status, check, stranger, faults, mishaps>>

NoFile == <<"none", "none">>
Runner(r) == <<"runner", r>>
Bot(r) == <<"bot", r>>

(* The operator has started a first run.sh. *)
Init ==
    /\ pidfile = NoFile
    /\ \E r \in Runners :
          /\ runner = [q \in Runners |-> IF q = r THEN "started" ELSE "gone"]
          /\ byHand = {r}
    /\ bot = [r \in Runners |-> "gone"]
    /\ status = [r \in Runners |-> 0]
    /\ check = "idle"
    /\ stranger = FALSE
    /\ faults = 0
    /\ mishaps = 1

Strikes(kind) ==
    /\ kind \in Faults
    /\ faults < MaxFaults
    /\ faults' = faults + 1

Writes(pid) == pidfile' = pid /\ stranger' = FALSE

(* A run of run.sh that nobody has heard of yet, the PID file included. *)
Free(r) ==
    /\ runner[r] = "gone"
    /\ bot[r] = "gone"
    /\ pidfile \notin {Runner(r), Bot(r)}

-----------------------------------------------------------------------------
(***************************************************************************)
(* run.sh                                                                  *)
(***************************************************************************)

(* run.sh does not look whether another one runs. *)
StartByHand(r) ==
    /\ Free(r)
    /\ Strikes("start")
    /\ runner' = [runner EXCEPT ![r] = "started"]
    /\ byHand' = byHand \cup {r}
    /\ mishaps' = mishaps + 1
    /\ UNCHANGED <<pidfile, bot, status, check, stranger>>

(* echo "$$" > "$PIDFILE" *)
WriteOwnPid(r) ==
    /\ runner[r] = "started"
    /\ runner' = [runner EXCEPT ![r] = "loop"]
    /\ Writes(Runner(r))
    /\ UNCHANGED <<byHand, bot, status, check, faults, mishaps>>

(* A new round of the loop, the first or the one after the sleep. *)
StartBot(r) ==
    /\ runner[r] \in {"loop", "sleep"}
    /\ runner' = [runner EXCEPT ![r] = "spawned"]
    /\ bot' = [bot EXCEPT ![r] = "up"]
    /\ UNCHANGED <<pidfile, byHand, status, check, stranger, faults, mishaps>>

(* echo "$BOT_PID" > "$PIDFILE" *)
WriteBotPid(r) ==
    /\ runner[r] = "spawned"
    /\ runner' = [runner EXCEPT ![r] = "wait"]
    /\ Writes(Bot(r))
    /\ UNCHANGED <<byHand, bot, status, check, faults, mishaps>>

(* Faulty, as the comments would have it: the status of the bot. *)
StatusOfBot(s) == s

(* EXIT_CODE is taken after "wait || true": it is the status of true. *)
ExitCode(s) == 0

(* Faulty: the bot is started again without waiting for it. *)
WaitSkipped(r) ==
    /\ runner[r] = "wait"
    /\ runner' = [runner EXCEPT ![r] = "loop"]
    /\ UNCHANGED <<pidfile, byHand, bot, status, check, stranger, faults, mishaps>>

(* The bot is gone: a clean exit ends the script, another one makes it      *)
(* sleep before it loops.  The PID file keeps the PID of the bot.           *)
WaitReturns(r) ==
    /\ runner[r] = "wait"
    /\ bot[r] = "gone"
    /\ runner' = [runner EXCEPT ![r] = IF ExitCode(status[r]) = 0
                                       THEN "gone" ELSE "sleep"]
    /\ UNCHANGED <<pidfile, byHand, bot, status, check, stranger, faults, mishaps>>

(* The run of run.sh, if any, that a signal to the PID in the file reaches. *)
Heard == {q \in Runners : pidfile = Runner(q) /\ runner[q] # "gone"}

(* The operator stops run.sh, and its trap, armed from the first line on    *)
(* that changes anything, signals the process of the PID file.  That is a   *)
(* bot, which starts to drain, or a run.sh between the writing of its PID   *)
(* and that of its bot.  Such a run, be it r itself, signals itself from    *)
(* its own trap again and again until the file or the shell is gone.        *)
Cleanup(r) ==
    /\ runner[r] \notin {"gone", "removing"}
    /\ Strikes("stop")
    /\ runner' = [q \in Runners |-> IF q \in Heard THEN "gone"
                                    ELSE IF q = r THEN "removing" ELSE runner[q]]
    /\ bot' = [q \in Runners |-> IF pidfile = Bot(q) /\ bot[q] = "up"
                                 THEN "draining" ELSE bot[q]]
    /\ \/ UNCHANGED <<pidfile, stranger>>
       \/ Heard # {} /\ Writes(NoFile)
    /\ mishaps' = mishaps + Cardinality(Heard \cup {r})
    /\ UNCHANGED <<byHand, status, check>>

(* rm -f "$PIDFILE", whoever's PID it holds by now. *)
RemoveFile(r) ==
    /\ runner[r] = "removing"
    /\ runner' = [runner EXCEPT ![r] = "gone"]
    /\ Writes(NoFile)
    /\ UNCHANGED <<byHand, bot, status, check, faults, mishaps>>

-----------------------------------------------------------------------------
(***************************************************************************)
(* The bot, from outside.                                                  *)
(***************************************************************************)

(* It dies, or exits with status 1 (a failed initial refresh, for one). *)
BotFails(r) ==
    /\ bot[r] # "gone"
    /\ bot' = [bot EXCEPT ![r] = "gone"]
    /\ status' = [status EXCEPT ![r] = 1]
    /\ UNCHANGED <<pidfile, runner, byHand, check, stranger, faults, mishaps>>

(* A signalled bot finishes its cycle and exits cleanly. *)
BotDrained(r) ==
    /\ bot[r] = "draining"
    /\ bot' = [bot EXCEPT ![r] = "gone"]
    /\ status' = [status EXCEPT ![r] = 0]
    /\ UNCHANGED <<pidfile, runner, byHand, check, stranger, faults, mishaps>>

-----------------------------------------------------------------------------
(***************************************************************************)
(* healthcheck.sh                                                          *)
(***************************************************************************)

(* kill -0 of the PID in the file. *)
PidAlive ==
    \/ stranger
    \/ \E r \in Runners : \/ pidfile = Runner(r) /\ runner[r] # "gone"
                          \/ pidfile = Bot(r) /\ bot[r] # "gone"

Starting(r) == runner[r] \in {"started", "loop", "spawned"}

(* The checks are five minutes apart: a run.sh that one of them started has *)
(* started its bot and written the PID when the next one comes.  One that   *)
(* was started by hand may be anywhere.                                     *)
FiveMinutesLater == check = "idle" /\ \A q \in Runners : Starting(q) => q \in byHand

(* Faulty: a PID file is proof enough of a process. *)
LooksForFile ==
    /\ Cron
    /\ FiveMinutesLater
    /\ pidfile = NoFile
    /\ check' = "start"
    /\ UNCHANGED <<pidfile, runner, byHand, bot, status, stranger, faults, mishaps>>

(* No file, or a file without a process.  Otherwise there is nothing to do. *)
CheckLooks ==
    /\ Cron
    /\ FiveMinutesLater
    /\ ~ (pidfile # NoFile /\ PidAlive)
    /\ check' = IF pidfile = NoFile THEN "start" ELSE "stale"
    /\ UNCHANGED <<pidfile, runner, byHand, bot, status, stranger, faults, mishaps>>

(* The file is removed, whoever's PID it holds by now ... *)
CheckRemoves ==
    /\ check = "stale"
    /\ check' = "start"
    /\ Writes(NoFile)
    /\ UNCHANGED <<runner, byHand, bot, status, faults, mishaps>>

(* ... and run.sh started. *)
CheckStarts(r) ==
    /\ check = "start"
    /\ Free(r)
    /\ runner' = [runner EXCEPT ![r] = "started"]
    /\ byHand' = byHand \ {r}
    /\ check' = "idle"
    /\ UNCHANGED <<pidfile, bot, status, stranger, faults, mishaps>>

-----------------------------------------------------------------------------
(***************************************************************************)
(* The machine.                                                            *)
(***************************************************************************)

(* All processes are gone, the PID file is not. *)
Reboot ==
    /\ Strikes("reboot")
    /\ runner' = [r \in Runners |-> "gone"]
    /\ bot' = [r \in Runners |-> "gone"]
    /\ status' = [r \in Runners |-> 1]
    /\ check' = "idle"
    /\ stranger' = FALSE
    /\ UNCHANGED <<pidfile, byHand, mishaps>>

(* run.sh is killed without its trap, or before that is armed; a bot it     *)
(* started lives on.                                                        *)
KillRunner(r) ==
    /\ runner[r] # "gone"
    /\ Strikes("kill")
    /\ runner' = [runner EXCEPT ![r] = "gone"]
    /\ mishaps' = mishaps + 1
    /\ UNCHANGED <<pidfile, byHand, bot, status, check, stranger>>

(* The PID of a process that is gone is given to another one ... *)
PidReused ==
    /\ pidfile # NoFile
    /\ ~ PidAlive
    /\ Strikes("reuse")
    /\ stranger' = TRUE
    /\ UNCHANGED <<pidfile, runner, byHand, bot, status, check, mishaps>>

(* ... that may end, or not. *)
StrangerEnds ==
    /\ stranger
    /\ stranger' = FALSE
    /\ UNCHANGED <<pidfile, runner, byHand, bot, status, check, faults, mishaps>>

Script(r) ==
    \/ WriteOwnPid(r) \/ StartBot(r) \/ WriteBotPid(r) \/ WaitReturns(r)
    \/ RemoveFile(r)

CheckGoesOn == CheckRemoves \/ \E r \in Runners : CheckStarts(r)

Next ==
    \/ \E r \in Runners :
          \/ Script(r) \/ StartByHand(r) \/ Cleanup(r) \/ KillRunner(r)
          \/ BotFails(r) \/ BotDrained(r)
    \/ CheckLooks \/ CheckGoesOn
    \/ Reboot \/ PidReused \/ StrangerEnds

(***************************************************************************)
(* A started script goes on, cron keeps running its job, and a signalled   *)
(* bot finishes its cycle.  Nothing fair is said about failures.           *)
(***************************************************************************)
Fairness ==
    /\ \A r \in Runners : WF_vars(Script(r)) /\ WF_vars(BotDrained(r))
    /\ WF_vars(CheckLooks) /\ WF_vars(CheckGoesOn)

Spec == Init /\ [][Next]_vars /\ Fairness

-----------------------------------------------------------------------------
(* Every variable keeps its type, a script that has not reached the start   *)
(* of the bot has no bot yet, and the PID file names a live run.sh only     *)
(* until that has written the PID of its bot.                               *)
TypeOK ==
    /\ pidfile \in {NoFile} \cup {Runner(r) : r \in Runners}
                            \cup {Bot(r) : r \in Runners}
    /\ runner \in [Runners -> {"gone", "started", "loop", "spawned", "wait",
                               "sleep", "removing"}]
    /\ byHand \subseteq Runners
    /\ bot \in [Runners -> {"gone", "up", "draining"}]
    /\ status \in [Runners -> {0, 1}]
    /\ check \in {"idle", "stale", "start"}
    /\ stranger \in BOOLEAN
    /\ faults \in 0 .. MaxFaults
    /\ mishaps \in Nat
    /\ \A r \in Runners : runner[r] \in {"started", "loop"} => bot[r] = "gone"
    /\ \A r \in Runners : pidfile = Runner(r) => runner[r] \in {"gone", "loop", "spawned"}

(* The account is traded by one bot, and by one more for each time that     *)
(* run.sh was started by hand, stopped or killed, whatever crashes, reboots *)
(* and reused PIDs the scripts see besides: healthcheck.sh starts one only  *)
(* when, as it puts it, the bot is "Not running", but a bot that drains or  *)
(* was lost, and a run.sh that has no PID in the file yet, it cannot see    *)
(* (run.sh's loop and cleanup, healthcheck.sh).                             *)
BotsBounded ==
    Cardinality({r \in Runners : bot[r] # "gone"}) <= 1 + mishaps

BotUp == \E r \in Runners : bot[r] = "up"

(* With cron there is a bot again and again, through every fault.  Only one *)
(* thing can end that: the PID in the file was given to a process that      *)
(* outlives everything, which healthcheck.sh takes for the bot.             *)
BotComesBack == []<>BotUp \/ <>[]stranger

(* README: "the runner script with auto-restart"; run.sh: "runner with      *)
(* auto-restart".  A bot that is gone is started again.                     *)
RunnerRestarts == ~ BotUp ~> BotUp

=============================================================================
