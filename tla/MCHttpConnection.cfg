CONSTANTS
  HEADER_BUF_SIZE = 5
  BODY_BUF_SIZE = 2
  Requests <- MCRequests
  MaxRequests = 3
SPECIFICATION Spec
INVARIANTS TypeOK RoutedInOnePiece OnlyWholeRequests AnswersOwn
PROPERTY Answered ServerFreed
