------------------------------ MODULE LogSinks ------------------------------
(***************************************************************************)
(* The log (embedder/src/log.cpp): a file on the card and a receiver on    *)
(* the network.  The file is the only report of a crash, so LogInit keeps  *)
(* the last one aside (".alt") before it writes its own; FAT does not      *)
(* rename onto a file that exists.  LogInit is also what starts the socket *)
(* service, and LogShutdown what ends it, for the whole program.           *)
(*                                                                         *)
(* The configuration is that of ui_app (a file, a receiver, no nxlink).    *)
(* All lines of a run are one: a file has lines of it or not.              *)
(***************************************************************************)

VARIABLES
  logPc,     (* where LogInit stands; "on" after it *)
  service,   (* the socket service: none, with its own or the default sizes *)
  sinks,     (* g_file, g_remote_fd *)
  logFile,   (* the file: the run that wrote it, and whether it has lines *)
  altFile,   (* the file ".alt" *)
  flushed,   (* history: whether this run, and the one before, have flushed a line *)
  refused    (* history: the card has refused this run's remove or its rename *)

logVars == <<logPc, service, sinks, logFile, altFile, flushed, refused>>

Runs == {"now", "previous", "older"}
NoLog == [by |-> "nobody", lines |-> FALSE]

LogReset ==
  /\ logPc = "sockets" /\ service = "none" /\ sinks = {}
  /\ logFile = NoLog /\ altFile = NoLog
  /\ flushed = [now |-> FALSE, previous |-> FALSE] /\ refused = FALSE

\* EnsureSocket, and ConnectWithTimeout, which needs it.
EnsureSocket ==
  /\ logPc = "sockets"
  /\ service' \in {"own", "default", "none"}
  /\ \/ sinks' = sinks
     \/ service' # "none" /\ sinks' = sinks \cup {"remote"}
  /\ logPc' = "remove"
  /\ UNCHANGED <<logFile, altFile, flushed, refused>>

\* Fault: the older report is left in the way of the rename.
RemoveAltNot ==
  /\ logPc = "remove"
  /\ logPc' = "rename"
  /\ UNCHANGED <<service, sinks, logFile, altFile, flushed, refused>>

\* Nobody looks at the results of std::remove and std::rename.
RemoveAlt ==
  /\ logPc = "remove"
  /\ \/ altFile' = NoLog /\ UNCHANGED refused
     \/ altFile # NoLog /\ refused' = TRUE /\ UNCHANGED altFile
  /\ logPc' = "rename"
  /\ UNCHANGED <<service, sinks, logFile, flushed>>

RenameLog ==
  /\ logPc = "rename"
  /\ \/ /\ altFile = NoLog
        /\ altFile' = logFile /\ logFile' = NoLog /\ UNCHANGED refused
     \/ altFile = NoLog /\ refused' = TRUE /\ UNCHANGED <<logFile, altFile>>
     \/ altFile # NoLog /\ UNCHANGED <<logFile, altFile, refused>>
  /\ logPc' = "open"
  /\ UNCHANGED <<service, sinks, flushed>>

\* fopen("w"), which empties the file; without it the other sinks go on.
OpenLog ==
  /\ logPc = "open"
  /\ \/ logFile' = [by |-> "now", lines |-> FALSE] /\ sinks' = sinks \cup {"file"}
     \/ UNCHANGED <<logFile, sinks>>
  /\ logPc' = "on"
  /\ UNCHANGED <<service, altFile, flushed, refused>>

\* Every line is flushed; a receiver that fails is given up and the rest goes on.
LogWrite ==
  /\ logPc = "on"
  /\ IF "file" \in sinks
     THEN logFile' = [by |-> "now", lines |-> TRUE] /\ flushed' = [flushed EXCEPT !.now = TRUE]
     ELSE UNCHANGED <<logFile, flushed>>
  /\ sinks' \in {sinks, sinks \ {"remote"}}
  /\ UNCHANGED <<logPc, service, altFile, refused>>

LogShutdown ==
  /\ logPc = "on"
  /\ sinks' = {} /\ service' = "none"
  /\ logPc' = "ended"
  /\ UNCHANGED <<logFile, altFile, flushed, refused>>

LogNext ==
  EnsureSocket \/ RemoveAlt \/ RenameLog \/ OpenLog \/ LogWrite \/ LogShutdown

Aged(file) ==
  [file EXCEPT !.by = CASE @ = "now" -> "previous" [] @ \in {"previous", "older"} -> "older"
                        [] OTHER -> @]

\* The program crashes or has ended, and is started again.
Restart ==
  /\ logPc' = "sockets" /\ service' = "none" /\ sinks' = {}
  /\ logFile' = Aged(logFile) /\ altFile' = Aged(altFile)
  /\ flushed' = [now |-> FALSE, previous |-> flushed.now] /\ refused' = FALSE

LogSpec == LogReset /\ [][LogNext \/ Restart]_logVars

-----------------------------------------------------------------------------
(* What a run flushed before it crashed can be read for as long as the     *)
(* next run goes, wherever either of them crashed (log.cpp:195-203: a      *)
(* restart with "w" has destroyed this evidence once).  Only a card that   *)
(* refuses the remove or the rename lets fopen("w") destroy it again.      *)
EvidenceKept ==
  /\ flushed.now => logFile = [by |-> "now", lines |-> TRUE]
  /\ flushed.previous =>
       \/ \E file \in {logFile, altFile} : file.by = "previous" /\ file.lines
       \/ refused /\ logPc \in {"on", "ended"}
=============================================================================
