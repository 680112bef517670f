\* Every sequence of keys on a Telex table with pages of two candidates, or of
\* hexadecimal digits.
SPECIFICATION InpSpec
CONSTANTS
    Charset <- TwoBytes
    Key <- TypedKeys
    NUL = "nul"
    tab <- TelexTab
    md = FALSE
    n_max_keystroke = 3
    n_selkey = 2
    keyname <- Names
    Kremap <- RemapOne
    Autocompose = TRUE
    Digits <- SomeDigits
INVARIANTS BufferConsistent ListsOwned CandidatesOfBuffer ComposedKeyByKey HexAsShown
