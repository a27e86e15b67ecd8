CONSTANTS
    w1 = w1
    w2 = w2
    oak = oak
    lit_oak = lit_oak
    elf = elf
    hello = hello
    odd = odd
    even = even
    NumSlots = 3
    Attempts = 2
    GenSize = 2
    Workers = {w1, w2}
    Pictures = {oak, lit_oak, elf, hello}
    Texts = {hello}
    Blank = {}
    Grants = {TRUE, FALSE}
    Image <- ImageFn
    Bucket <- BucketFn
    NoPicture = NoPicture
    Raw = Raw
SPECIFICATION Spec
INVARIANTS WorkerOwnsSlot ListsWhole
SYMMETRY WorkerSymmetry
