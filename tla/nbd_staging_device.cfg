\* Two workers race for the same free device.
CONSTANTS
    w1 = w1  w2 = w2  d1 = d1  d2 = d2
    NoWorker = NoWorker
    NoDevice = NoDevice
    Workers = {w1, w2}
    Devices = {d1, d2}
SPECIFICATION Spec
INVARIANT StagingPathServesOwnVolume
