CONSTANTS
  Call = {c1, c2, c3}
  NoKey = NoKey
  NoCall = NoCall
  Posting <- MCPosting
SPECIFICATION FairLedgerSpec
INVARIANTS
  BooksAgree
PROPERTIES
  BookSpec
  EveryCallIsAnswered
