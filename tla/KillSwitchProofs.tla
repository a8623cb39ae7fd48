-------------------------- MODULE KillSwitchProofs --------------------------
(***************************************************************************)
(* What every operation of the kill switch keeps, for the modules that     *)
(* compose it with the watchdog's other checks and with the pipeline.      *)
(***************************************************************************)
EXTENDS KillSwitch, TLAPS

(* The switch and the two tables the services write to.                    *)
Tables ==
    /\ globalStop \in BOOLEAN
    /\ pausedAgents \subseteq Agents
    /\ haltedSessions \subseteq Threads
    /\ frozenTools \subseteq Tools
    /\ age \in [Agents -> [Threads -> Ages]]
    /\ pausedThreads \subseteq Threads

(* The calls other services make.                                          *)
Served ==
    \/ \E a \in Agents, t \in Threads : Heartbeat(a, t)
    \/ \E t \in Threads : PauseThread(t) \/ UnpauseThread(t)
    \/ Operate

LEMMA OlderIsAnAge ==
  ASSUME NEW n \in Ages
  PROVE  Older(n, StaleAfter) \in Ages
  BY KillSwitchAssumption DEF Ages, Older, Never

LEMMA HeartbeatKeepsTables ==
  ASSUME Tables, NEW a \in Agents, NEW t \in Threads, Heartbeat(a, t)
  PROVE  Tables'
<1>1. 0 \in Ages
  BY KillSwitchAssumption DEF Ages
<1>2. age' \in [Agents -> [Threads -> Ages]]
  BY <1>1 DEF Heartbeat, Tables
<1>3. QED
  BY <1>2 DEF Heartbeat, Tables, switchVars

LEMMA OperateKeepsTables ==
  ASSUME Tables, Operate
  PROVE  Tables'
<1>1. PICK trip \in OperatorTrips :
         Trip(trip.scope, trip.target) \/ Reset(trip.scope, trip.target)
  BY DEF Operate
<1>2. /\ trip.scope = "agent" => trip.target \in Agents
      /\ trip.scope = "session" => trip.target \in Threads
      /\ trip.scope = "tool" => trip.target \in Tools
  BY KillSwitchAssumption
<1>3. globalStop' \in BOOLEAN
  BY <1>1 DEF Trip, Reset, Tables
<1>4. pausedAgents' \subseteq Agents
  BY <1>1, <1>2 DEF Trip, Reset, Tables
<1>5. haltedSessions' \subseteq Threads
  BY <1>1, <1>2 DEF Trip, Reset, Tables
<1>6. frozenTools' \subseteq Tools
  BY <1>1, <1>2 DEF Trip, Reset, Tables
<1>7. QED
  BY <1>1, <1>3, <1>4, <1>5, <1>6 DEF Trip, Reset, Tables

LEMMA ServedKeepsTables ==
  ASSUME Tables, Served
  PROVE  Tables'
<1>1. ASSUME NEW a \in Agents, NEW t \in Threads, Heartbeat(a, t) PROVE Tables'
  BY <1>1, HeartbeatKeepsTables
<1>2. ASSUME NEW t \in Threads, PauseThread(t) \/ UnpauseThread(t) PROVE Tables'
  BY <1>2 DEF PauseThread, UnpauseThread, Tables, switchVars
<1>3. CASE Operate
  BY <1>3, OperateKeepsTables
<1>4. QED
  BY <1>1, <1>2, <1>3 DEF Served

LEMMA TickKeepsTables ==
  ASSUME Tables, Tick
  PROVE  Tables'
<1>1. age' = [a \in Agents |-> [t \in Threads |-> Older(age[a][t], StaleAfter)]]
  BY DEF Tick
<1>2. \A a \in Agents, t \in Threads : Older(age[a][t], StaleAfter) \in Ages
  BY OlderIsAnAge DEF Tables
<1>3. age' \in [Agents -> [Threads -> Ages]]
  BY <1>1, <1>2
<1>4. QED
  BY <1>3 DEF Tick, Tables, switchVars

LEMMA HaltKeepsTables ==
  ASSUME Tables, NEW t \in Threads, HaltStale(t)
  PROVE  Tables'
  BY DEF HaltStale, Tables

LEMMA RestartKeepsTables ==
  ASSUME Tables, RestartControlPlane
  PROVE  Tables'
  BY DEF RestartControlPlane, Tables

LEMMA TablesInit == KillSwitchInit => Tables
<1> SUFFICES ASSUME KillSwitchInit PROVE Tables
  OBVIOUS
<1>1. Never \in Ages
  BY DEF Ages
<1>2. age \in [Agents -> [Threads -> Ages]]
  BY <1>1 DEF KillSwitchInit
<1>3. QED
  BY <1>2 DEF KillSwitchInit, SwitchInit, Tables
=============================================================================
