SPECIFICATION LiveSpec
CONSTANTS
  r1 = r1
  r2 = r2
  e1 = e1
  Runs = {r1, r2}
  Emails = {e1}
  NoEmail = NoEmail
  NoAnswer = NoAnswer
  Guests <- MCGuests
  GuestTags <- MCGuestTags
INVARIANTS
  AtomicPair
  EmailUnique
  AnswersTrue
  
  ErrorBeforeCommit
  NoTransactionLeak
PROPERTIES
  EveryRunEnds
