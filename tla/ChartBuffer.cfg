CONSTANTS
    Series = {tps, qps, iops, conns}
    Cap = 3
    MaxSamples = 7
    MaxInFlight = 3
SPECIFICATION Spec
INVARIANT TypeOK
INVARIANT WindowIsLatest
