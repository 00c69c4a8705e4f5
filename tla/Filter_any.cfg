\* Any requests, one after another.
SPECIFICATION Spec
CONSTANTS
    first = first
    second = second
    Words = {first, second}
    Blacklist <- MCBlacklist
    Extensions <- MCExtensions
    Urls <- MCUrls
    Unit <- MCUnit
    None = None
INVARIANTS
    TypeOK
    VerdictIsRight
    MatchIsOfThisUrl
    StrengthInBounds
