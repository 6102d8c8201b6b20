CONSTANTS
    Period = 2
    WindowSize = 3
    MinSamples = 2
    ThresholdNum = 63
    ThresholdDen = 2
    FloorDen = 2500
    MaxDelay = 2
    MaxGap = 2
    MaxElapsed = 20
SPECIFICATION DetectorFairSpec
PROPERTIES SuspicionIsStable CrashIsNoticed TrustReturns
