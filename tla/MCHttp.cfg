\* Two clients, eight kinds of request, words of at most five characters.
SPECIFICATION FairSpec
CONSTANTS
  Clients = {"c1", "c2"}
  Texts <- Requests
  Methods <- Get
  Known <- Kept
  Hex <- Pairs
  Files <- Image
  Siz = 5
  SkipSiz = 99
  Chunk = 2
  Backlog = 1
  NoClient = "none"
INVARIANTS
  HttpTypeOK
  HeaderAsSent
  AnswersMatch
PROPERTY
  EveryoneServed
