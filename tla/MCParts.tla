------------------------------- MODULE MCParts -------------------------------
(***************************************************************************)
(* Parts of the program that do not interact, side by side: the initial    *)
(* state chooses one, and only that one moves.                             *)
(*   buffer   blocks of 2, 4 and 8 bytes, strings of up to three bytes     *)
(*   log      two days with names, files of two lines                      *)
(*   config   two kinds of devices, three requests, one thing that goes    *)
(*            wrong                                                        *)
(*   startup  up to three entries of three kinds, two lines, two threads   *)
(*   tou      two plans that meet in a minute, all four modes              *)
(*   ess      lists of up to two requests                                  *)
(*   dio      four reads, two values to set                                *)
(*   share    two threads, three calls, two blocks and a permanent one     *)
(***************************************************************************)
EXTENDS BuffCache, LogFiles, Config, MCTimeOfUse, EssDrivers, Startup, DigitalIo,
        ShareData

CONSTANTS a, b
VARIABLE part

MCByte == {a, b}
MCChunks == UNION {[1 .. n -> MCByte] : n \in 1 .. 3}
MCBlockSizes == {2, 4, 8}

(* The parts that do not move have one initial state. *)
PartsInit ==
  /\ part \in {"buffer", "log", "config", "startup", "tou", "ess", "dio", "share"}
  /\ Init /\ LogInit
  /\ ConfigInit /\ (part # "config" => ~ui.known)
  /\ IF part = "startup" THEN StartInit
     ELSE StartInit /\ config = <<>>
  /\ TouInit
  /\ part # "tou" => soc = 0 /\ ~pv_consume /\ ~demand_dynamic /\ m_demand = 0
  /\ EssInit /\ (part # "ess" => nominal_step = 0)
  /\ DioInit /\ (part # "dio" => level = 0 /\ pin = 0 /\ first = 0)
  /\ ShareInit

BufferMoves ==
  /\ part = "buffer" /\ Next
  /\ UNCHANGED <<part, logVars, configVars, startVars, touVars, essVars, dioVars,
                 shareVars>>
LogMoves ==
  /\ part = "log" /\ LogNext
  /\ UNCHANGED <<part, vars, configVars, startVars, touVars, essVars, dioVars,
                 shareVars>>
ConfigMoves ==
  /\ part = "config" /\ ConfigNext
  /\ UNCHANGED <<part, vars, logVars, startVars, touVars, essVars, dioVars,
                 shareVars>>
StartupMoves ==
  /\ part = "startup" /\ StartNext
  /\ UNCHANGED <<part, vars, logVars, configVars, touVars, essVars, dioVars,
                 shareVars>>
TouMoves ==
  /\ part = "tou" /\ TouNext
  /\ UNCHANGED <<part, vars, logVars, configVars, startVars, essVars, dioVars,
                 shareVars>>
EssMoves ==
  /\ part = "ess" /\ EssNext
  /\ UNCHANGED <<part, vars, logVars, configVars, startVars, touVars, dioVars,
                 shareVars>>
DioMoves ==
  /\ part = "dio" /\ DioNext
  /\ UNCHANGED <<part, vars, logVars, configVars, startVars, touVars, essVars,
                 shareVars>>
ShareMoves ==
  /\ part = "share" /\ ShareNext
  /\ UNCHANGED <<part, vars, logVars, configVars, startVars, touVars, essVars,
                 dioVars>>

PartsNext ==
  \/ BufferMoves \/ LogMoves \/ ConfigMoves \/ StartupMoves
  \/ TouMoves \/ EssMoves \/ DioMoves \/ ShareMoves

PartsSpec ==
  PartsInit /\ [][PartsNext]_<<part, vars, logVars, configVars, startVars, touVars,
                               essVars, dioVars, shareVars>>
=============================================================================
