SPECIFICATION FairSpec
CONSTANTS
  Services = {s1, s2}
  NoService = NoService
  Foreign = Foreign
  UserEntries <- MCEntries
  UserLists <- MCLists
  MaxEdits = 2
INVARIANTS TypeOK NoNewDuplicates OthersKept DeploysAddresses
PROPERTIES Settles Configured ImplementsEnvironment
