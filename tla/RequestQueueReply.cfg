SPECIFICATION Spec
CONSTANTS
    c1 = c1
    c2 = c2
    Caller <- MCCaller
    MaxCalls = 2
    NoRequest = NoRequest
PROPERTIES
    ReplyIsForTheCall
