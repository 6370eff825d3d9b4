SPECIFICATION FairSpec
CONSTANTS
  Programs <- AllPrograms
  MaxItems = 4
  MaxFd = 4
  Height = 3
  ChunkRows = 2
  MaxUpdates = 2
  MaxPings = 3
  Windows = {0, 1}
  Cuts = TRUE
INVARIANTS TypeOK OpenFilesHeld WindowShowsImage AnswerWhole ExitMeansAnswered
PROPERTIES CallsInOrder  LastImageShown
