\* Tables whose longest keystroke has five keys.
SPECIFICATION TableSpec
CONSTANTS
    Charset <- TwoBytes
    ChardefLine <- FiveKeyLines
    MaxLines = 2
    Garbage = {7}
    Asked <- FiveKeys
INVARIANT OwnChars
\* A search is made once, of one keystroke.
CHECK_DEADLOCK FALSE
