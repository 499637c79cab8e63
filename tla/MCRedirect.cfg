SPECIFICATION Spec
CONSTANTS
    PublicSuffixes <- MCPublicSuffixes
    IpHosts <- MCIpHosts
    Loopbacks <- MCLoopbacks
    Files <- MCFiles
    MaxNow = 1
    Jobs <- MCJobs
    Heads <- MCHeads
    Lines <- MCLines
    Urls <- MCUrls
    MaxRedirs = 2
    MaxCalls = 1
    MaxLines = 2
    MaxUses = 2
INVARIANTS
    SecretsStayHome
PROPERTIES
    SecureCookiesKept
    RedirectsEnd
CHECK_DEADLOCK FALSE
