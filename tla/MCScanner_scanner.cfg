SPECIFICATION Spec
CONSTANTS
  Texts <- MCTexts
  Words <- MCWords
CHECK_DEADLOCK FALSE
INVARIANTS AnnotationsEnd CommentsApart EndsMatched DelimitersInserted
