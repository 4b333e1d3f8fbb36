CONSTANTS
  TradeIds = {"t1", "t2"}
  Accounts = {"deployer", "buyer", "seller"}
  Escrow = "escrow"
  Zero = "zero"
  Deployer = "deployer"
  FeeRecipient = "deployer"
  Buyers = {"buyer"}
  Sellers = {"seller"}
  Amounts = {0, 2}
  Fees = {0, 1}
  Funds <- MCFunds
  MaxTime = 4
SPECIFICATION FairSpec
INVARIANTS
  Solvent
PROPERTIES
  EachTradeIsAnEscrow
  DepositIsNeverLocked
