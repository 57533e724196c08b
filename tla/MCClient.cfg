\* Two connections, so that one is let go of while another is in use.
CONSTANTS
    MaxConns = 2
    NoCon = NoCon
    Texts <- MCTexts
    KeySets <- MCKeySets
    Calls <- MCCalls
    Incoming <- MCIncoming
    MaxFrames = 1
SPECIFICATION ClientSpec
INVARIANT MessagesSurvive
PROPERTIES
    DestructorEnds
    
\* A client that was destroyed does nothing any more.
CHECK_DEADLOCK FALSE
