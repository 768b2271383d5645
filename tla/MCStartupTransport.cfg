SPECIFICATION StartSpec
CONSTANT None = None
INVARIANT MainnetNeedsTls
