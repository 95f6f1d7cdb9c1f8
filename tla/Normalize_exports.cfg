SPECIFICATION Spec
CONSTANTS
    line = line
    begin = begin
    end = end
    oneLine = oneLine
    Export = {last, next}
    Text <- Texts
    Begins <- BeginTexts
    Ends <- EndTexts
    Blob = {b1, b2}
    None = None
    BlobMark = BlobMark
    KeyMark = KeyMark
    MaxUnits = 3
CHECK_DEADLOCK FALSE
INVARIANTS
    TypeOK
    SameHash
    ChangeSeen
