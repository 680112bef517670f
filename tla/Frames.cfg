\* Lists of up to three elements, arrays that need each pad; an IC whose client
\* sets up to two values at a time.
SPECIFICATION WireSpec
CONSTANTS
    ReadSizes = {1, 2, 3}
    WriteSizes = {0, 1, 2, 3}
    ArraySizes = {0, 1, 2, 3, 5}
    LongSize = 4
    fg_color = 5
    bg_color = 6
    Words <- RcWords
    Styles = {1032, 1028, 1026}
    Elements <- Values
    Wishes <- NameLists
    Extensions <- ExtensionLists
    Encodings <- EncodingLists
INVARIANTS LaidOut ReadBack ValuesKept
\* A message that is read or written is the end.
CHECK_DEADLOCK FALSE
