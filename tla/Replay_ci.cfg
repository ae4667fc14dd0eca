SPECIFICATION Spec
CONSTANTS
    main = main
    aux = aux
    loop = loop
    mail = mail
    Threads = {main, aux}
    Main = main
    Prompts = {loop, mail}
    Chained = {mail}
    Irreversible = {mail}
    Programs <- MCPrograms
    Answers <- MCAnswers
    ProviderError <- Error
    TokensOf <- MCTokens
    MaxTries = 2
    MaxProcesses = 3
INVARIANTS
    NothingUnwantedIsSent
    OrdinalServing
    UnchangedAgentPasses
    GreenMeansRecorded
    SpendIsBounded
CHECK_DEADLOCK FALSE
