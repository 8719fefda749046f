SPECIFICATION FairSpec
CONSTANTS
    Session = {s1, s2, s3}
    s1 = s1
    s2 = s2
    s3 = s3
    Plain = {s3}
    Unset = Unset
    Garbage = Garbage
PROPERTIES
    SessionsEnd
CHECK_DEADLOCK FALSE
