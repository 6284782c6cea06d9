-------------------------- MODULE MCSupervisorDaemon --------------------------
(* Executions e1 and e2, their tickets in the order of executions, then     *)
(* stages; the runs choose how many executions and stages there are.        *)
EXTENDS SupervisorDaemon

CONSTANTS e1, e2, Length

MCOrdinary   == [e \in Execs |-> Length]
MCExecRank   == [e \in Execs |-> IF e = e1 THEN 1 ELSE 2]
MCTicketRank == [t \in Execs \X (1 .. Length + 1) |-> MCExecRank[t[1]] * 10 + t[2]]
==============================================================================
