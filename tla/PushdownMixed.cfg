CONSTANTS
    Columns = {"score"}
    Type <- OneText
    Mixed = {"score"}
    Numbers = {0, 1}
    Tests <- AllTests
    Docs <- OneTextDocs
    MaxLeaves = 2
SPECIFICATION Spec
INVARIANT AnswerUnchanged
CHECK_DEADLOCK FALSE
