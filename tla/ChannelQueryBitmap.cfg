CONSTANTS
    Replies = {0, 1, 3, 7, 130}
SPECIFICATION Spec
PROPERTIES
    QueryReturns
