----------------------------- MODULE AppServices -----------------------------
(***************************************************************************)
(* What outlives a run of the program, and what a run has outside of it:   *)
(* the settings and the log on the card, and the connections of the HTTP   *)
(* client and the stream proxy.  The platform thread's calls, the lines of *)
(* all threads and the isolate of the network take their steps in any      *)
(* order once LogInit is over; a loss of power, or the end of the program, *)
(* meets all of them at once, and the next start has the card only.        *)
(***************************************************************************)
EXTENDS Settings, LogSinks, HorizonHttp, LocalStreamProxy

appVars == <<vars, logVars, httpVars, proxyVars>>

AppInit == Init /\ LogReset /\ HttpReset /\ ProxyReset

\* The plugins' files and the log.
CardNext ==
  /\ \/ logPc = "on" /\ Call /\ UNCHANGED logVars
     \/ LogNext /\ UNCHANGED vars
  /\ UNCHANGED <<httpVars, proxyVars>>

\* It is LogInit that starts the socket service (or cannot): without it nothing
\* connects and no server is bound.
Network ==
  /\ logPc = "on"
  /\ \/ HttpNext /\ UNCHANGED proxyVars
     \/ ProxyNext /\ UNCHANGED httpVars
  /\ service = "none" => tcp' \subseteq tcp /\ listening' = listening
  /\ UNCHANGED <<vars, logVars>>

StartAgain == Crash /\ Restart /\ HttpRestart /\ ProxyRestart

AppNext == CardNext \/ Network \/ StartAgain

AppSpec == AppInit /\ [][AppNext]_appVars
=============================================================================
