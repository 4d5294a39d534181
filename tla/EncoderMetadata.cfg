SPECIFICATION Spec
CONSTANTS
    FrameLength = 2048
    AudioDelays = {3204, 5087}
    Default = Default
    Setups = {Default, speech}
    CallBound = 4
INVARIANTS GainMeetsSetup ResetIsHeard CompressorIsContinuous
