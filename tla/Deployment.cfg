SPECIFICATION Spec
CONSTANTS
    Unset = Unset
    NoAddress = NoAddress
    Language = {"en", "tr"}
    UrlPath <- MCUrlPath
    Client = {"a:80", "unix"}
    Proxy = {"p"}
    Forged <- MCForged
    Address <- MCAddress
    Initial <- MCInitial
    Path <- MCPath
    Choice <- MCChoice
    EnvChoice <- MCEnvChoice
    MaxWritten = 2
    MaxRelays = 2
INVARIANTS
    TypeOK
    QuietChecksMeanProtection
    RulesInEffectOrReported
    TranslationIsInvisible
    LoginIsStrict
    BannedRejectedFirst
    AddressIsAHop
