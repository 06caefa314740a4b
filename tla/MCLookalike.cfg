CONSTANTS
    lookalikes <- MCLookalikes
    ASCII <- MCASCII
    Rune <- MCRune
    ToLower <- MCToLower
    MaxLength = 3
SPECIFICATION NameSpec
INVARIANTS NameTypeOK NormalizesBack IsDisguised
