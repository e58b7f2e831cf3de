SPECIFICATION Spec
CONSTANTS
    Server = server
    Handlers = {h1, h2}
    Methods <- MCMethods
    Wrappers = {w1, w2}
    Calls <- MCCalls
    Results <- MCResults
    FaultCodes <- MCFaultCodes
SYMMETRY Symmetric
CHECK_DEADLOCK FALSE
INVARIANTS
    WrappersOwned
    ListedIsCallable
    AnswersAgree
