CONSTANTS
    SttSession = {"stt"}
    ImageSession = {"image"}
    OcrSession = {"ocr"}
    NoSession = "none"
    MaxTasks = 2
    MaxStreams = 2
    MaxSamples = 4
    FrameSize = 2
    MaxTexts = 2
SPECIFICATION MCSpec
INVARIANTS
    RequestsAnswered
    
    AudioArrives
    TextsAreSpoken

    
CHECK_DEADLOCK FALSE
