SPECIFICATION FairSpec
CONSTANTS
    s1 = s1
    s2 = s2
    tube = tube
    blog = blog
    post = post
    d1 = d1
    d2 = d2
    d3 = d3
    d4 = d4
    Strategies <- OneStrategy
    SourcesOf <- ManifestSources
    TypeOf <- SourceTypes
    Lists <- Listings
    MaxDocuments <- Limits
    UrlOf <- Urls
    Lookback = 2
    Retention = 3
    MaxReceives = 2
    MaxDay = 2
    FirstShown <- Published
    MaxFaults = 1
    MaxEdits = 1
    MaxManual = 1
    MaxRedrives = 0
INVARIANTS DraftsAreAccepted EvidenceIsSound OneAnswerPerJob ExtractedOnce
PROPERTIES ReportsAreFinal
CHECK_DEADLOCK FALSE
