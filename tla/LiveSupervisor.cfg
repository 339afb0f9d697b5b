SPECIFICATION FairSpec
CONSTANTS
  Names = {"own", "btc"}
  Processes = {"supervisor", "monitor"}
  Timeout = 1
  Horizon = 2
  Strategies = {"own", "a", "b"}
  Allocations = {1}
  max_strategies = 2
  max_capital = 2
  max_loss = 1
  Requests = {r1, r2}
  MaxPnl = 1
  Own = "own"
  Instruments <- MCInstruments
  max_positions = 1
  DownAfter = 1
  Pause = 2
  MaxTickets = 2
  Budgets <- MCBudgets
INVARIANTS  EntryChecked WireChecked
PROPERTIES   SafeStateLifts
