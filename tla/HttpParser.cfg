\* Two requests: the second one meets what the first has left behind.
CONSTANTS
  Names = {"f", "hello"}
  MaxRequests = 2
  MaxValue = 6
SPECIFICATION Spec
INVARIANTS AnswersInOrder WholeAnswered OutcomesForeseen
CHECK_DEADLOCK FALSE
