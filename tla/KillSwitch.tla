----------------------------- MODULE KillSwitch -----------------------------
(***************************************************************************)
(* The part of custodian-control-plane that every run of the pipeline      *)
(* touches: the in-memory kill-switch state, the heartbeats and            *)
(* paused_threads tables, and the watchdog's check for silent threads.     *)
(* ControlPlane.tla adds the checks over the decision log;                 *)
(* InvoicePipeline.tla composes these actions with the agents' runs.       *)
(*                                                                         *)
(* Time is counted in watchdog ticks.  The watchdog sleeps a fixed         *)
(* interval between two loops, so a tick begins only when its previous     *)
(* loop has ended.  An age saturates just above StaleAfter.                *)
(***************************************************************************)
EXTENDS Integers, FiniteSets, FiniteSetsExt

CONSTANTS
    Agents,         \* the agents that heartbeat
    Threads,        \* graph threads: one per invoice id
    Tools,
    StaleAfter,     \* HEARTBEAT_STALE_SECONDS in ticks
    OperatorTrips   \* the [scope, target] pairs operators trip and reset

Scopes == {"global", "agent", "session", "tool"}

ASSUME KillSwitchAssumption ==
    /\ StaleAfter \in Nat
    /\ \A trip \in OperatorTrips :
          /\ trip.scope \in Scopes
          /\ trip.scope = "agent" => trip.target \in Agents
          /\ trip.scope = "session" => trip.target \in Threads
          /\ trip.scope = "tool" => trip.target \in Tools

VARIABLES
    globalStop, pausedAgents, haltedSessions, frozenTools,  \* state
    age,            \* heartbeats: ticks since last_seen, per agent and thread
    pausedThreads,  \* paused_threads
    phase,          \* where the watchdog is in its loop
    found           \* the rows of the current check still to be acted on

switchVars == <<globalStop, pausedAgents, haltedSessions, frozenTools>>
watchdogVars == <<phase, found>>
killSwitchVars == <<switchVars, age, pausedThreads, watchdogVars>>

Never == -1     \* no heartbeat row

Ages == {Never} \union 0..(StaleAfter + 1)

Older(n, limit) == IF n \in 0..limit THEN n + 1 ELSE n

(* max(last_seen) over the agents: the youngest heartbeat of the thread.   *)
HasRow(t) == \E a \in Agents : age[a][t] # Never

(* Mutant of Silent: every agent must have fallen silent, even those that  *)
(* never spoke.                                                            *)
EveryAgentSilent(t) == \A a \in Agents : age[a][t] > StaleAfter

Silent(t) == HasRow(t) /\ \A a \in Agents : age[a][t] = Never \/ age[a][t] > StaleAfter

(* Mutant of StaleThreads: each agent's row is checked on its own, the     *)
(* original bug the docstring of _check_stale_heartbeats describes.        *)
ThreadsWithStaleRow ==
    {t \in Threads : (\E a \in Agents : age[a][t] > StaleAfter) /\ t \notin pausedThreads}

(* The query of _check_stale_heartbeats.                                   *)
StaleThreads == {t \in Threads : Silent(t) /\ t \notin pausedThreads}

-----------------------------------------------------------------------------

SwitchInit ==
    /\ globalStop = FALSE
    /\ pausedAgents = {}
    /\ haltedSessions = {}
    /\ frozenTools = {}

KillSwitchInit ==
    /\ SwitchInit
    /\ age = [a \in Agents |-> [t \in Threads |-> Never]]
    /\ pausedThreads = {}
    /\ phase = "stale"
    /\ found = {}

(* POST /heartbeat                                                         *)
Heartbeat(a, t) ==
    /\ age' = [age EXCEPT ![a][t] = 0]
    /\ UNCHANGED <<switchVars, pausedThreads, watchdogVars>>

(* POST /threads/{thread_id}/pause and /unpause                            *)
PauseThread(t) ==
    /\ pausedThreads' = pausedThreads \union {t}
    /\ UNCHANGED <<switchVars, age, watchdogVars>>

UnpauseThread(t) ==
    /\ pausedThreads' = pausedThreads \ {t}
    /\ UNCHANGED <<switchVars, age, watchdogVars>>

(* POST /kill-switch/trip                                                  *)
Trip(scope, target) ==
    /\ globalStop' = (globalStop \/ scope = "global")
    /\ pausedAgents' = pausedAgents \union (IF scope = "agent" THEN {target} ELSE {})
    /\ haltedSessions' = haltedSessions \union (IF scope = "session" THEN {target} ELSE {})
    /\ frozenTools' = frozenTools \union (IF scope = "tool" THEN {target} ELSE {})
    /\ UNCHANGED <<age, pausedThreads, watchdogVars>>

(* POST /kill-switch/reset                                                 *)
Reset(scope, target) ==
    /\ globalStop' = (globalStop /\ scope # "global")
    /\ pausedAgents' = pausedAgents \ (IF scope = "agent" THEN {target} ELSE {})
    /\ haltedSessions' = haltedSessions \ (IF scope = "session" THEN {target} ELSE {})
    /\ frozenTools' = frozenTools \ (IF scope = "tool" THEN {target} ELSE {})
    /\ UNCHANGED <<age, pausedThreads, watchdogVars>>

Operate == \E trip \in OperatorTrips :
    Trip(trip.scope, trip.target) \/ Reset(trip.scope, trip.target)

(* The watchdog wakes for its next loop.                                   *)
Tick ==
    /\ phase = "sleep"
    /\ phase' = "stale"
    /\ age' = [a \in Agents |-> [t \in Threads |-> Older(age[a][t], StaleAfter)]]
    /\ UNCHANGED <<switchVars, pausedThreads, found>>

(* _check_stale_heartbeats: the query, then the rows it returned one by    *)
(* one; heartbeats and pauses keep arriving in between.                    *)
QueryStale ==
    /\ phase = "stale"
    /\ phase' = "halt"
    /\ found' = StaleThreads
    /\ UNCHANGED <<switchVars, age, pausedThreads>>

HaltStale(t) ==
    /\ phase = "halt"
    /\ t \in found
    /\ found' = found \ {t}
    /\ haltedSessions' = haltedSessions \union {t}
    /\ UNCHANGED <<globalStop, pausedAgents, frozenTools, age, pausedThreads, phase>>

(* Mutant of FinishStale: the rows that are left are dropped.              *)
FinishStaleEarly(next) ==
    /\ phase = "halt"
    /\ found' = {}
    /\ phase' = next
    /\ UNCHANGED <<switchVars, age, pausedThreads>>

FinishStale(next) ==
    /\ phase = "halt"
    /\ found = {}
    /\ phase' = next
    /\ UNCHANGED <<switchVars, age, pausedThreads, found>>

(* The process is restarted: the switch is in memory, the tables are not.  *)
RestartControlPlane ==
    /\ globalStop' = FALSE
    /\ pausedAgents' = {}
    /\ haltedSessions' = {}
    /\ frozenTools' = {}
    /\ phase' = "stale"
    /\ found' = {}
    /\ UNCHANGED <<age, pausedThreads>>
=============================================================================
