-------------------------- MODULE MCReportSchedule --------------------------
(* Two processes, each with one poll under way at a time.                  *)
EXTENDS ReportSchedule

CONSTANTS i1, i2, p1, p2, s1, s2

MCHostOf == [p \in {p1, p2} |-> IF p = p1 THEN i1 ELSE i2]
=============================================================================
