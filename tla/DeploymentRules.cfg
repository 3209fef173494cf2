SPECIFICATION Spec
CONSTANTS
    Unset = Unset
    NoAddress = NoAddress
    Language = {"en", "tr"}
    UrlPath <- MCUrlPath
    Client = {"a:80", "unix"}
    Proxy = {"p"}
    Forged <- MCForged
    Address <- MCAddress
    Initial <- MCInitial
    Path <- MCPath
    Choice <- DictChoice
    EnvChoice <- NoChoice
    MaxWritten = 1
    MaxRelays = 0
INVARIANTS
    RulesInEffectOrReported
