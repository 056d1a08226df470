CONSTANTS
    Bufs = {s1, s2}
    Conv = Conv
    Chars = {0, 1, 255}
    Strings <- MCStrings
    Formats <- MCFormats
    TruncLens <- MCTruncLens
    MaxCalls = 3
    VaListShared = TRUE
SPECIFICATION Spec
PROPERTY SBufImplementsString
