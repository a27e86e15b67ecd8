CONSTANTS
    w1 = w1
    w2 = w2
    oak = oak
    lit_oak = lit_oak
    elf = elf
    hello = hello
    odd = odd
    even = even
    NumSlots = 2
    Attempts = 2
    GenSize = 3
    Workers = {w1, w2}
    Pictures = {oak, lit_oak, hello}
    Texts = {hello}
    Blank = {oak}
    Grants = {TRUE, FALSE}
    Image <- ImageFn
    Bucket <- BucketFn
    NoPicture = NoPicture
    Raw = Raw
SPECIFICATION Spec
INVARIANTS TypeOK JobsAreCurrent SlotRules ShowsRequest
PROPERTY PrefetchDone
