SPECIFICATION TypingSpec
CONSTANTS
  a1 = a1
  a2 = a2
  c1 = c1
  c2 = c2
  g1 = g1
  g2 = g2
  NoAccount = NoAccount
  NoCampaign = NoCampaign
  Accounts <- TwoAccounts
  Campaigns <- OneCampaign
  Groups <- OneGroup
  HomeOf <- Home
  Connected = {a1}
  Defaults <- OneGroup
  Gates = {"open", "expired"}
  Tariffs = {1}
  MaxSleep = 0
PROPERTIES
  PhoneIsHeard
