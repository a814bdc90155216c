--------------------------- MODULE ItchLifecycle ---------------------------
(***************************************************************************)
(* The daily ITCH 5.0 lifecycle that ItchParser enforces: which message    *)
(* types each channel phase admits and how System Events move the phase.   *)
(*                                                                         *)
(* A message is represented by its type.  System Events carry their event  *)
(* code: "SO" is type 'S' with code 'O'.  "SA" stands for the as-needed    *)
(* codes A, R and B, "S?" for a System Event the parser cannot accept (an  *)
(* unknown code or a nonzero stock locate), "H" for the startup            *)
(* administrative types H Y L V W K J h, "N" for every type that is parsed *)
(* and skipped (O, P, Q, I, N).  "T?" is any message whose timestamp is    *)
(* not inside the trading day.                                             *)
(***************************************************************************)
EXTENDS Naturals

CONSTANT Rejected       \* what a step of the lifecycle returns on failure

Phases == {"WaitingStartOfMessages", "StartupDirectorySpin",
           "StartupAdminSpin", "SystemHours", "MarketHours",
           "PostMarketHours", "PostSystemHours", "EndOfMessages"}

PhaseEvents == {"SO", "SS", "SQ", "SM", "SE", "SC"}
BookTypes   == {"A", "E", "X", "D", "U"}
MessageTypes == PhaseEvents \cup BookTypes
                  \cup {"SA", "S?", "T?", "R", "H", "B", "N"}

\* The phases from which each System Event is accepted, and where it leads.
Before == [SO |-> {"WaitingStartOfMessages"},
           SS |-> {"StartupDirectorySpin", "StartupAdminSpin"},
           SQ |-> {"SystemHours"},
           SM |-> {"MarketHours"},
           SE |-> {"PostMarketHours"},
           SC |-> {"PostSystemHours"}]

After == [SO |-> "StartupDirectorySpin", SS |-> "SystemHours",
          SQ |-> "MarketHours",          SM |-> "PostMarketHours",
          SE |-> "PostSystemHours",      SC |-> "EndOfMessages"]

\* The checks dispatchMessage makes before it looks at the message body.
DispatchAdmits(phase, type) ==
  /\ type # "T?"
  /\ type # "S?"
  /\ phase = "WaitingStartOfMessages" => type = "SO"
  /\ phase # "EndOfMessages"
  /\ phase = "PostSystemHours" => type \in {"X", "D", "B", "SC"}

\* advancePhase: the phase a System Event leads to, or Rejected.
AdvancePhase(phase, event) ==
  IF phase \in Before[event] THEN After[event] ELSE Rejected

\* markStartupAdminMessage.
MarkStartupAdmin(phase) ==
  IF phase = "StartupDirectorySpin" THEN "StartupAdminSpin" ELSE phase

\* The phase after a message of the given type, or Rejected when the
\* lifecycle refuses the message.  The book-dependent part of the verdict is
\* not decided here.
PhaseAfter(phase, type) ==
  IF ~DispatchAdmits(phase, type) THEN Rejected
  ELSE IF type \in PhaseEvents THEN AdvancePhase(phase, type)
  ELSE IF type = "H" THEN MarkStartupAdmin(phase)
  ELSE phase
=============================================================================
