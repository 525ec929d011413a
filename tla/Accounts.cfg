SPECIFICATION Spec
CONSTANTS
  a1 = a1
  a2 = a2
  c1 = c1
  c2 = c2
  p1 = p1
  p2 = p2
  NoAccount = NoAccount
  NoCampaign = NoCampaign
  Accounts <- TwoAccounts
  Campaigns <- TwoCampaigns
  Groups = {}
  HomeOf <- NoHome
  Procs <- TwoProcs
INVARIANTS
  IInv
  OneRunningPerAccount
  OneActiveAccount
  ReplacedIsQuiet
SYMMETRY Same
