SPECIFICATION FairSpec
CONSTANTS
    s1 = s1
    s2 = s2
    tube = tube
    blog = blog
    post = post
    d1 = d1
    d2 = d2
    d3 = d3
    d4 = d4
    Strategies <- TwoStrategies
    SourcesOf <- ManifestSources
    TypeOf <- SourceTypes
    Lists <- ShortListings
    MaxDocuments <- Limits
    UrlOf <- Urls
    Lookback = 2
    Retention = 3
    MaxReceives = 2
    MaxDay = 2
    FirstShown <- Published
    MaxFaults = 2
    MaxEdits = 0
    MaxManual = 0
    MaxRedrives = 1
PROPERTIES EveryStrategyIsServed
CHECK_DEADLOCK FALSE
