SPECIFICATION Spec
CONSTANTS
  h1 = h1
  h2 = h2
  q1 = q1
  q2 = q2
  None = None
  Procs = {h1, h2}
  Users = {1, 2}
  Host = 1
  Quotes = {q1, q2}
  Total = 5
  Methods = {"HOST_PAYS", "DISTANCE"}
  Openings = {1}
  MaxAttempts = 2
  MaxFaults = 1
  MaxParticipants = 2
  MaxVersion = 2
CONSTRAINT Combined
INVARIANTS
  QuoteCoversMembers
  BookedIsPaid
  NeverChargedTwice
  CreditsConserved
  NoMoneyForgotten
SYMMETRY Symmetry
CHECK_DEADLOCK FALSE
