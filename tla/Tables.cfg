\* Tables of up to five lines, one unit more than characters in the encoding.
SPECIFICATION TableSpec
CONSTANTS
    Charset <- TwoBytes
    ChardefLine <- TableLines
    MaxLines = 5
    Garbage = {7}
    Asked <- Typed
INVARIANTS FirstFound ReadsInside FindsOwnChars RecallsKeystroke
\* A search is made once, of one keystroke.
CHECK_DEADLOCK FALSE
