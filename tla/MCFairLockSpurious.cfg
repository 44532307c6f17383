SPECIFICATION SpuriousSpec
CONSTANT Threads = {t1, t2, t3}
INVARIANT MutualExclusion
