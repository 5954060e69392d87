CONSTANTS
  Sessions = {"s1", "s2"}
  Workers = {"w1", "w2"}
  SessionSteps = 1
  MaxRetries = 1
  BatchSize = 2
  Capacity = 2
  TickSize = 2
  Outcomes = {"success"}
SPECIFICATION DashboardSpec
INVARIANTS ShownIsTold LeaderboardIsFresh
PROPERTY StartAgain
