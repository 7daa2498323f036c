SPECIFICATION FairSpec
CONSTANTS
  u1 = u1  u2 = u2  Escrow = Escrow  Platform = Platform
  Users = {u1, u2}
  ClientRefs = {}  Amounts = {}
  Txs = {t1, t2, t3}
  Postings <- OpposedPostings
  Rank <- WalletRank
  OpeningBalance <- Opening
INVARIANTS TypeOK NoCircularWait EntriesChain
PROPERTIES PostsAtomically PostingsEnd
