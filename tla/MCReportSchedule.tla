--------------------------- MODULE MCReportSchedule ---------------------------
(* The goroutines and messages of the runs of ReportSchedule.              *)
EXTENDS ReportSchedule

CONSTANTS e1, e2, r1, r2

OneEnabler == {e1}
TwoEnablers == {e1, e2}
OneRun == {r1}
TwoRuns == {r1, r2}

EveryPlatform == AllPlatforms
Unix == {"unix"}
AllMessages == Command \cup {"newconfig", "settings", "runprofile"}
OnlyDisable == {"disable"}
WithoutCertificate == Command \ {"certificate"}

=============================================================================
