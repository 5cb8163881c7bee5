\* Two processes of two widths and one stop, over two chunks of three texts.
SPECIFICATION Spec
CONSTANTS
    Workers = {w1, w2}
    t1 = t1
    t2 = t2
    t3 = t3
    x = x
    y = y
    Texts = {t1, t2, t3}
    Contents = {x, y}
    ContentOf <- OneSharedContent
    Dims = {256, 512}
    BatchSize = 2
    MaxAttempts = 1
    MaxChunks = 2
    MaxCrashes = 1
    NoText = NoText
    NoDim = NoDim
    NoVector = NoVector
INVARIANTS
    TypeOK
    ExhaustedChunksAreNotRetried
    AttemptsOverrunIsBounded
PROPERTIES
    EmbeddedChunksAreDone
    ImplementsSemanticIndex
