SPECIFICATION FairReportSpec
CONSTANTS
  Requests = {r1, r2}
  ReportSinks = 2
  EventSinks = 3
PROPERTIES TelemetryNeverHolds EventsReachEverySink
