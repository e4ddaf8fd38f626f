CONSTANTS
    f1 = f1
    f2 = f2
    d1 = d1
    d2 = d2
    d3 = d3
    c1 = c1
    None = None
    Factories = {f1, f2}
    Names = {"widevine", "playready"}
    SystemName <- MCSystemName
    Designators = {d1, d2, d3}
    Configurations <- MCConfigurations
    Clients = {c1}
    ConnectionIds = {1, 2}
    MaxJobs = 2
SPECIFICATION Spec
INVARIANTS SessionsAreBacked FactoryCallsAgree AssertionsHold DownIsClean AnswersStayTrue
PROPERTIES QuietAfterStop CrashIsNoticed DeactivationCompletes
