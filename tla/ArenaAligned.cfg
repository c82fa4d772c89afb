\* The block starts 16 bytes past a multiple of 32, as malloc may return it.
CONSTANTS
    Base = 2
    Capacity = 10
    MinAlloc = 2
    Layouts <- MCLayouts
SPECIFICATION Spec
INVARIANT Aligned
