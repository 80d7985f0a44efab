------------------------------ MODULE Startup ------------------------------
(***************************************************************************)
(* The start of the service with the PEDEMS plug-in: main() makes the      *)
(* threads, InitEMS() creates a device for each entry of Device.json,      *)
(* gives it a worker thread and registers it, StartEMS() starts what is    *)
(* registered, and the loop begins.  Entries may fail to be created, and   *)
(* functions that end without a return statement return anything.  The     *)
(* debug message about a uuid that is taken already ends the process: it   *)
(* gives %s a character.                                                   *)
(***************************************************************************)
EXTENDS Integers, Sequences

CONSTANTS
  Kinds,      \* the kinds of devices that Device.json lists
  Uuid,       \* the uuids
  Ems,        \* the sn of the EMS, which is one of them
  NoUuid,     \* the uuid of an entry that has none
  MaxPort,    \* the RS485 lines are 1 .. MaxPort; 0 stands for the network, and
              \* is no line: the first name in conf/HardWareCfg.json is "None"
  ThreadNum,  \* GetThreadNum()
  MaxEntries  \* bound: entries of Device.json

(* The order in which CreateDevices() goes through the kinds. *)
Kind == <<"Pv", "Ess", "Diesel", "Load", "Meter">>

ASSUME StartupAssumption ==
  /\ Kinds \subseteq {Kind[n] : n \in DOMAIN Kind}
  /\ {Ems, NoUuid} \subseteq Uuid /\ MaxPort \in Nat
  /\ ThreadNum \in Nat \ {0} /\ MaxEntries \in Nat

Entry == [kind : Kinds, uuid : Uuid, port : 0 .. MaxPort]

VARIABLES
  config,      \* Device.json, in the order of creation
  pc,          \* where main() is
  next,        \* the entry to create next
  opened,      \* entries whose device is connected
  thread,      \* m_n_thread_index of each entry's device, -1 if none
  registered,  \* m_map_devices: for a uuid the entry, 0 for the EMS, -1 if none
  managed,     \* the entries in the vectors of the managers
  enabled,     \* the devices with ENABLE, 0 for the EMS
  scheduled    \* how often the timer of the energy schedule was started

startVars == <<config, pc, next, opened, thread, registered, managed, enabled, scheduled>>

Entries == DOMAIN config
Rank(e) == CHOOSE n \in DOMAIN Kind : Kind[n] = e.kind
Sorted(c) == \A i \in 1 .. Len(c) - 1 : Rank(c[i]) <= Rank(c[i + 1])
Configs == {c \in UNION {[1 .. n -> Entry] : n \in 0 .. MaxEntries} : Sorted(c)}

StartInit ==
  /\ config \in Configs
  /\ pc = "ems" /\ next = 1
  /\ opened = {} /\ thread = [i \in Entries |-> -1]
  /\ registered = [u \in Uuid |-> -1]
  /\ managed = {} /\ enabled = {} /\ scheduled = 0
-----------------------------------------------------------------------------
(* Mutant: the later device takes the place. *)
RegisterReplacing(u, i, then) ==
  registered' = [registered EXCEPT ![u] = i] /\ pc' = then
(* DeviceManager::RegisterDevice(); the message about a duplicate lists    *)
(* all devices, and only an empty name survives being printed.             *)
RegisterDevice(u, i, then) ==
  \/ registered[u] = -1 /\ registered' = [registered EXCEPT ![u] = i] /\ pc' = then
  \/ /\ registered[u] # -1 /\ UNCHANGED registered
     /\ pc' = IF \E v \in Uuid \ {NoUuid} : registered[v] # -1 THEN "dead" ELSE then

(* InitEMSDevice(): it fails if syscfg.json cannot be read. *)
InitEMSDevice ==
  /\ pc = "ems"
  /\ RegisterDevice(Ems, 0, "create") \/ (UNCHANGED registered /\ pc' = "create")
  /\ UNCHANGED <<config, next, opened, thread, managed, enabled, scheduled>>

(* ModbusOperator::InitModbusOperaterHander(): a serial line must open, a  *)
(* network device need not answer, and no call connects it later.          *)
Connects(i) ==
  \/ opened' = opened \cup {i}
  \/ config[i].port = 0 /\ UNCHANGED opened

(* Mutants: the thread is chosen anew for each device; thread 0 is used.   *)
ThreadsAnyhow(port) == 1 .. ThreadNum
ThreadsFromZero(port) == IF port = 0 THEN 0 .. ThreadNum - 1 ELSE {port % ThreadNum}
(* EMSDevice::SetDevAsyncCallThread() *)
Threads(port) == IF port = 0 THEN 1 .. ThreadNum ELSE {(port % ThreadNum) + 1}

(* One turn of a Create...Devices() loop; meters have no manager. *)
CreateDevice ==
  /\ pc = "create" /\ next \in Entries
  /\ Connects(next)
  /\ \E t \in Threads(config[next].port) : thread' = [thread EXCEPT ![next] = t]
  /\ RegisterDevice(config[next].uuid, next, "create")
  /\ managed' = IF config[next].kind = "Meter" THEN managed ELSE managed \cup {next}
  /\ next' = next + 1
  /\ UNCHANGED <<config, enabled, scheduled>>

(* The plug-in is missing, or Init() fails: CreateDevices() returns. *)
CreateFails ==
  /\ pc = "create" /\ next \in Entries
  /\ pc' = "server"
  /\ UNCHANGED <<config, next, opened, thread, registered, managed, enabled, scheduled>>

(* The functions for these kinds end without a return statement; after     *)
(* one of them CreateDevices() may return early.                           *)
ReturnsAnything == {"Pv", "Ess", "Diesel"}
EndsEarly ==
  /\ pc = "create" /\ next > 1
  /\ config[next - 1].kind \in ReturnsAnything
  /\ next \in Entries => config[next].kind # config[next - 1].kind
  /\ pc' = "server"
  /\ UNCHANGED <<config, next, opened, thread, registered, managed, enabled, scheduled>>

AllCreated ==
  /\ pc = "create" /\ next \notin Entries
  /\ pc' = "server"
  /\ UNCHANGED <<config, next, opened, thread, registered, managed, enabled, scheduled>>

(* InitRunCfgSrv() ends InitEMS(), whose own result is anything, too: main *)
(* goes on to StartEMS() or straight to the loop.                          *)
EndInitEMS ==
  /\ pc = "server" /\ pc' \in {"start", "loop"}
  /\ UNCHANGED <<config, next, opened, thread, registered, managed, enabled, scheduled>>

(* Device::SetEnableState(ENABLE) of some devices; the EMS starts its      *)
(* schedule.                                                               *)
Enable(devs) ==
  /\ enabled' = enabled \cup devs
  /\ scheduled' = IF 0 \in devs \ enabled THEN scheduled + 1 ELSE scheduled

(* StartEMS(): what is registered, then the EMS. *)
StartDevices ==
  /\ pc = "start" /\ pc' = "startEms"
  /\ Enable({registered[u] : u \in Uuid} \ {-1})
  /\ UNCHANGED <<config, next, opened, thread, registered, managed>>
StartEMS ==
  /\ pc = "startEms" /\ pc' = "loop"
  /\ Enable({0})
  /\ UNCHANGED <<config, next, opened, thread, registered, managed>>

RunLoop == pc = "loop" /\ UNCHANGED startVars
Dead == pc = "dead" /\ UNCHANGED startVars

StartNext ==
  \/ InitEMSDevice \/ CreateDevice \/ CreateFails \/ EndsEarly \/ AllCreated
  \/ EndInitEMS \/ StartDevices \/ StartEMS \/ RunLoop \/ Dead

StartSpec == StartInit /\ [][StartNext]_startVars
-----------------------------------------------------------------------------
Created == {i \in Entries : thread[i] # -1}

(* All devices on one RS485 line are served by one thread: the line has no *)
(* other lock, each device opens the port for itself.                      *)
OneThreadPerLine ==
  \A i, j \in Created :
    config[i].port = config[j].port /\ config[i].port # 0 => thread[i] = thread[j]

(* No device is started before it has a thread (SendAsyncAction asserts    *)
(* it), and none blocks thread 0, the one of the log.                      *)
StartedHaveAThread == \A i \in enabled \ {0} : thread[i] \in 1 .. ThreadNum

(* Both: the threads of the devices are as the drivers take them to be. *)
ThreadsFit == OneThreadPerLine /\ StartedHaveAThread

(* A device that the schedule commands is polled, too: one that is not     *)
(* registered would count in its manager with data nobody updates.  The    *)
(* exception are entries without a uuid after the first.                   *)
CommandedArePolled ==
  pc = "loop" /\ scheduled > 0 =>
    \A i \in managed \ enabled :
      config[i].uuid = NoUuid /\ (Ems = NoUuid \/ \E j \in Created : j < i
          /\ config[j].uuid = NoUuid)
=============================================================================
