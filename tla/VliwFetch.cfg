\* Four words: 16 program addresses, every alignment, and the wrap of the
\* program counter; Lengths is every length the decoder reports.
CONSTANT W = 4
SPECIFICATION FairFetchSpec
INVARIANT FetchTypeOK
INVARIANT WindowAtPc
INVARIANT QueueAhead
PROPERTY ImplementsOrder
PROPERTY IssuesAgain
