\* Two processes and one stop, over two chunks that are retried once.
SPECIFICATION FairSpec
CONSTANTS
    Workers = {w1, w2}
    t1 = t1
    t2 = t2
    t3 = t3
    x = x
    y = y
    Texts = {t1}
    Contents = {x}
    ContentOf <- OneText
    Dims = {256}
    BatchSize = 2
    MaxAttempts = 2
    MaxChunks = 2
    MaxCrashes = 1
    NoText = NoText
    NoDim = NoDim
    NoVector = NoVector
PROPERTIES
    EveryChunkSettles
