SPECIFICATION FairSpec
CONSTANTS
    q1 = q1
    s1 = s1
    q2 = q2
    hello = hello
    Queries = {q1, q2}
    Subs = {s1}
    Hello = hello
    MaxVersion = 3
CHECK_DEADLOCK FALSE
INVARIANTS
    TypeOK
    AnswersAreTrue
    InStep
PROPERTY CallsSettle
