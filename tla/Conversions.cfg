\* Rule sets of two sources of one line each for every client, nodes with three optional
\* fields, texts of seven symbols.
SPECIFICATION MCSpec
CONSTANTS
    Lines <- Sample
    Targets <- AllTargets
    MaxUrls = 2
    MaxLines = 1
    Types = {"ss", "trojan", "vmess", "vless", "http", "socks5", "hysteria2", "tuic", "anytls"}
    MaxExtra = 3
    Symbols = {"h", "s", "/"}
    Long <- LongPattern
    Short <- ShortPattern
    Base <- OtherBase
    MaxText = 7
INVARIANTS SameAsParse NothingLeaked RoundTrip ReplacedInOrder
PROPERTIES NothingDropped NoneIgnored
CHECK_DEADLOCK FALSE
